---- MODULE Spec2Model ----
(***************************************************************************)
(* A model of the fire-statistics lake pipeline (fire_project.assets):     *)
(* Bronze ingestion, Silver transforms and Gold dimension building.        *)
(* Each family of operations has its own specification over its own        *)
(* variables; the variables of the other families stay at their idle value.*)
(* Text is modelled as sequences of one-character strings.                 *)
(***************************************************************************)
EXTENDS Integers, Sequences, FiniteSets, TLC

VARIABLES
    hdr_in,       \* a column name of the frame given to standardise_headers
    hdr_cols,     \* the frame's column name after the calls made so far
    hdr_prev,     \* the column name before the latest call
    hdr_calls     \* number of standardise_headers calls made on the frame

hdrVars == <<hdr_in, hdr_cols, hdr_prev, hdr_calls>>

VARIABLES
    page,             \* the hrefs of the index page, in document order
    download_queue,   \* fire_stats_bronze_all: the URLs to fetch, in order
    landing,          \* the Landing folders: file name -> content (Absent when no file)
    local_file_map,   \* group name -> the group's local files, in queue order
    group_order,      \* the keys of local_file_map in insertion order
    pc,               \* position of fire_stats_bronze_all
    qi,               \* index of the download loop (i + 1)
    gi,               \* index of the group loop
    fi,               \* index of the file loop of the current group
    first_write,      \* the flag of the current group
    group_row_count,  \* rows written for the current group
    results_summary,  \* group name -> row count, for the groups written
    bronze,           \* the Bronze Delta tables: table name -> table (NoTable when none)
    resp,             \* the latest HTTP exchange of the download loop
    writes,           \* the write_deltalake calls of the run, in order
    log,              \* the entries given to context.log, in order
    nfcc_pc,          \* position of nfcc_family_group_bronze
    nfcc_resp,        \* the HTTP exchange of nfcc_family_group_bronze
    vacuum_ok         \* whether DeltaTable.vacuum succeeds on the tables of this run

fireVars == <<page, download_queue, landing, local_file_map, group_order, pc, qi, gi, fi,
              nfcc_pc, nfcc_resp, vacuum_ok,
              first_write, group_row_count, results_summary, bronze, resp, writes, log>>

VARIABLES
    fy_col,       \* add_financial_year: the name of the frame's candidate column
    fy_dates,     \* the values of that column, one per row
    fy_result     \* the outcome of the call: pending, returned (with the frame) or raised

fyVars == <<fy_col, fy_dates, fy_result>>

VARIABLES
    mid_value,    \* calculate_midpoint: the cell given as text_value
    mid_result    \* what the call returned (pending before the call)

midVars == <<mid_value, mid_result>>

VARIABLES
    geo_lsoa_lad,   \* Silver lookup_lsoa_msoa_lad
    geo_lad_fra,    \* Silver lookup_lad_fra
    geo_dim,        \* Gold Dim_Geography
    geo_result      \* how dim_geography ended

geoVars == <<geo_lsoa_lad, geo_lad_fra, geo_dim, geo_result>>

VARIABLES
    pop_bronze,     \* Bronze population_estimates
    pop_long,       \* Silver population_long
    pop_result      \* how population_silver ended

popVars == <<pop_bronze, pop_long, pop_result>>

VARIABLES
    frs_silver,     \* the (code, name) pairs of the Silver fire tables, in folder order
    frs_nfcc,       \* Silver nfcc_family_groups
    all_pairs,      \* dim_frs: the pairs harvested, after remapping
    frs_dim,        \* Gold Dim_FRS
    frs_result      \* how dim_frs ended

frsVars == <<frs_silver, frs_nfcc, all_pairs, frs_dim, frs_result>>

VARIABLES
    dt_types,       \* apply_drill_through_mapping: the fris_incident_type column
    dt_result       \* what the call returned and logged

drillVars == <<dt_types, dt_result>>

VARIABLES
    ff_bronze,      \* the Bronze fire datasets, in folder order
    ff_silver,      \* the Silver fire tables by dataset name
    ff_gold,        \* the Gold fact tables by fact name
    ff_log,         \* the warnings and errors of the two assets
    ff_pc           \* the asset to run next

factVars == <<ff_bronze, ff_silver, ff_gold, ff_log, ff_pc>>

VARIABLES
    fyd_silver,     \* dim_financial_year: the Silver fire folders
    fyd_dim,        \* Gold Dim_FinancialYear
    fyd_log,        \* the log entries of the run
    fyd_result      \* how dim_financial_year ended

fydVars == <<fyd_silver, fyd_dim, fyd_log, fyd_result>>

VARIABLES
    fp_lsoa,        \* Gold Fact_Population_LSOA
    fp_result       \* how fact_population ended

fpVars == <<fp_lsoa, fp_result>>

VARIABLES
    df_columns,     \* nfcc_family_group_bronze: the normalized column names
    new_columns     \* the names after de-duplication

colVars == <<df_columns, new_columns>>

VARIABLES
    run             \* the state of every asset in one run of the job

dagVars == <<run>>

VARIABLES
    ty_df,          \* fire_stats_silver: the frame before step 4
    ty_out          \* the frame after the typing pass

typVars == <<ty_df, ty_out>>

VARIABLES
    environ,        \* os.environ when the modules are imported
    lake_roots,     \* the lake root each module resolved
    lake_tables,    \* the tables on disk, each a root and a path under it
    materialized    \* the assets that have run

rootVars == <<environ, lake_roots, lake_tables, materialized>>

lastVars == <<typVars, rootVars>>

\* the families of the assets modelled first, and of those modelled after them
coreVars == <<hdrVars, fireVars, fyVars, midVars, geoVars, popVars, frsVars>>
laterVars == <<drillVars, factVars, fydVars, fpVars, colVars, dagVars, lastVars>>

vars == <<hdrVars, fireVars, fyVars, midVars, geoVars, popVars, frsVars, laterVars>>

(***************************************************************************)
(* The idle values of each family of variables                             *)
(***************************************************************************)
FireIdle ==
    /\ page = <<>>
    /\ download_queue = <<>>
    /\ landing = <<>>
    /\ local_file_map = <<>>
    /\ group_order = <<>>
    /\ pc = "idle"
    /\ qi = 0
    /\ nfcc_pc = "idle"
    /\ nfcc_resp = <<>>
    /\ vacuum_ok = TRUE
    /\ gi = 0
    /\ fi = 0
    /\ first_write = TRUE
    /\ group_row_count = 0
    /\ results_summary = <<>>
    /\ bronze = <<>>
    /\ resp = <<>>
    /\ writes = <<>>
    /\ log = <<>>

FyIdle ==
    /\ fy_col = ""
    /\ fy_dates = <<>>
    /\ fy_result = [status |-> "idle"]

GeoIdle ==
    /\ geo_lsoa_lad = [kind |-> "idle"]
    /\ geo_lad_fra = [kind |-> "idle"]
    /\ geo_dim = <<>>
    /\ geo_result = [status |-> "idle"]

PopIdle ==
    /\ pop_bronze = [kind |-> "idle"]
    /\ pop_long = <<>>
    /\ pop_result = [status |-> "idle"]

FrsIdle ==
    /\ frs_silver = <<>>
    /\ frs_nfcc = [kind |-> "idle"]
    /\ all_pairs = <<>>
    /\ frs_dim = <<>>
    /\ frs_result = [status |-> "idle"]

\* the Gold and population assets are not running
TablesIdle == GeoIdle /\ PopIdle /\ FrsIdle

DrillIdle == dt_types = [kind |-> "idle"] /\ dt_result = [status |-> "idle"]

FactIdle ==
    /\ ff_bronze = <<>>
    /\ ff_silver = <<>>
    /\ ff_gold = <<>>
    /\ ff_log = <<>>
    /\ ff_pc = "idle"

FydIdle ==
    /\ fyd_silver = <<>>
    /\ fyd_dim = <<>>
    /\ fyd_log = <<>>
    /\ fyd_result = [status |-> "idle"]

FpIdle == fp_lsoa = <<>> /\ fp_result = [status |-> "idle"]

ColIdle == df_columns = <<>> /\ new_columns = <<>>

DagIdle == run = <<>>

TypIdle == ty_df = <<>> /\ ty_out = <<>>

RootIdle ==
    /\ environ = [kind |-> "idle"]
    /\ lake_roots = [kind |-> "idle"]
    /\ lake_tables = {}
    /\ materialized = {}

LastIdle == TypIdle /\ RootIdle

LaterIdle == DrillIdle /\ FactIdle /\ FydIdle /\ FpIdle /\ ColIdle /\ DagIdle /\ LastIdle

MidIdle ==
    /\ mid_value = [kind |-> "idle"]
    /\ mid_result = [kind |-> "idle"]

HdrIdle ==
    /\ hdr_in = <<>>
    /\ hdr_cols = <<>>
    /\ hdr_prev = <<>>
    /\ hdr_calls = 0

CoreIdle == HdrIdle /\ FireIdle /\ FyIdle /\ MidIdle /\ TablesIdle

(***************************************************************************)
(* Generic helpers on sequences                                            *)
(***************************************************************************)
RECURSIVE SeqsUpTo(_, _)
\* all sequences over S of length at most n
SeqsUpTo(S, n) ==
    IF n = 0 THEN {<<>>}
    ELSE LET shorter == SeqsUpTo(S, n - 1)
         IN  shorter \cup {Append(s, c) : s \in shorter, c \in S}

(***************************************************************************)
(* silver_layer.standardise_headers                                        *)
(***************************************************************************)
MaxHdrLen == 4

HeaderChars == {"p", "C", "x", "_", " ", "-"}

\* str.lower() on one character
LowerCh(ch) ==
    IF ch = "C" THEN "c" ELSE IF ch = "P" THEN "p" ELSE IF ch = "U" THEN "u" ELSE ch

Lower(s) == [i \in 1..Len(s) |-> LowerCh(s[i])]

RECURSIVE LStrip(_, _)
\* drop the leading characters of s that are in set
LStrip(s, set) ==
    IF s # <<>> /\ Head(s) \in set THEN LStrip(Tail(s), set) ELSE s

RECURSIVE RStrip(_, _)
RStrip(s, set) ==
    IF s # <<>> /\ s[Len(s)] \in set THEN RStrip(SubSeq(s, 1, Len(s) - 1), set) ELSE s

\* str.strip(chars)
Strip(s, set) == RStrip(LStrip(s, set), set)

Whitespace == {" "}

\* characters matched by [a-z0-9]
LowerAlnum == {"p", "c", "x", "a", "b", "d", "e", "0", "1", "2", "3", "5", "7"}

\* re.sub(r"^[pc]_", "", c)
StripFieldPrefix(s) ==
    IF Len(s) >= 2 /\ s[1] \in {"p", "c"} /\ s[2] = "_"
    THEN SubSeq(s, 3, Len(s))
    ELSE s

RECURSIVE SkipNonAlnum(_)
\* the rest of s after its leading run of characters outside [a-z0-9]
SkipNonAlnum(s) ==
    IF s # <<>> /\ Head(s) \notin LowerAlnum THEN SkipNonAlnum(Tail(s)) ELSE s

RECURSIVE CollapseNonAlnum(_)
\* re.sub(r'[^a-z0-9]+', '_', c): every maximal run of other characters becomes one '_'
CollapseNonAlnum(s) ==
    IF s = <<>> THEN <<>>
    ELSE IF Head(s) \in LowerAlnum
         THEN <<Head(s)>> \o CollapseNonAlnum(Tail(s))
         ELSE <<"_">> \o CollapseNonAlnum(SkipNonAlnum(Tail(s)))

\* the body of the loop of standardise_headers, for one column name
standardise_header(col) ==
    LET c1 == Lower(Strip(col, Whitespace))
        c2 == StripFieldPrefix(c1)
    IN  Strip(CollapseNonAlnum(c2), {"_"})

InitHeaders ==
    /\ LaterIdle
    /\ MidIdle
    /\ TablesIdle
    /\ FireIdle
    /\ FyIdle
    /\ hdr_in \in SeqsUpTo(HeaderChars, MaxHdrLen)
    /\ hdr_cols = hdr_in
    /\ hdr_prev = hdr_in
    /\ hdr_calls = 0

MaxHdrCalls == 2

\* standardise_headers(df): df.columns = new_cols
standardise_headers ==
    /\ hdr_calls < MaxHdrCalls
    /\ hdr_prev' = hdr_cols
    /\ hdr_cols' = standardise_header(hdr_cols)
    /\ hdr_calls' = hdr_calls + 1
    /\ UNCHANGED <<hdr_in, fireVars, fyVars, midVars, geoVars, popVars, frsVars, laterVars>>

NextHeaders == standardise_headers

SpecHeaders == InitHeaders /\ [][NextHeaders]_vars

\* C1: header normalization is idempotent: normalizing an already normalized
\* header changes nothing, normalize(normalize(s)) = normalize(s), for every header s.
C1_HeadersIdempotent ==
    hdr_calls >= 2 => hdr_cols = hdr_prev

(***************************************************************************)
(* silver_layer.add_financial_year                                         *)
(***************************************************************************)
MaxFyRows == 2

NaT == [kind |-> "NaT"]   \* what pd.to_datetime(errors='coerce') gives for other text
NaN == [kind |-> "NaN"]
Num(n) == [kind |-> "num", v |-> n]

FyYears == {1999, 2009, 2024}
FyMonths == {1, 3, 4, 12}

Date(y, mo) == [kind |-> "date", year |-> y, month |-> mo]

\* the values a date column may hold after pd.to_datetime
DateValues == {Date(y, mo) : y \in FyYears, mo \in FyMonths} \cup {NaT}

FyColumns == {"incident_date", "last_update_date", "station_name"}

\* "date" in c and "update" not in c
IsDateColumn(c) == c \in {"incident_date"}

\* np.where(month >= 4, year, year - 1) for one row: NaT compares False and
\* NaT's year - 1 is NaN
FyStartOf(d) ==
    IF d = NaT THEN NaN
    ELSE IF d.month >= 4 THEN Num(d.year) ELSE Num(d.year - 1)

\* fy_start: np.where returns a numpy.ndarray
fy_start(dates) == [type |-> "ndarray", data |-> [k \in 1..Len(dates) |-> FyStartOf(dates[k])]]

\* mask = ~np.isnan(fy_start)
FyMask(arr) == {k \in 1..Len(arr.data) : arr.data[k] # NaN}

\* x.astype(int).astype(str), x[mask], x + 1: a numpy.ndarray stays a numpy.ndarray
\* x.str: the string accessor exists on a pandas Series only
HasStrAccessor(arr) == arr.type = "Series"

\* the last two characters of the decimal text of n (n >= 10), as digits
LastTwo(n) == <<(n \div 10) % 10, n % 10>>

\* str(start) + "/" + str(start + 1)[-2:]
FyLabel(start) == [start |-> start, suffix |-> LastTwo(start + 1)]

\* a cell with no value
NoValue == [kind |-> "absent"]

\* add_financial_year(df), lines 88-99
add_financial_year(col, dates) ==
    IF ~IsDateColumn(col)
    THEN [status |-> "returned", has_fy |-> FALSE, financial_year |-> [k \in 1..Len(dates) |-> NoValue]]
    ELSE LET arr == fy_start(dates)
             mask == FyMask(arr)
         IN  IF mask = {}
             THEN [status |-> "returned", has_fy |-> FALSE,
                   financial_year |-> [k \in 1..Len(dates) |-> NoValue]]
             ELSE IF ~HasStrAccessor(arr)
             THEN [status |-> "raised", error |-> "AttributeError"]
             ELSE [status |-> "returned", has_fy |-> TRUE,
                   financial_year |-> [k \in 1..Len(dates) |->
                        IF k \in mask THEN FyLabel(arr.data[k].v) ELSE NoValue]]

InitFinancialYear ==
    /\ LaterIdle
    /\ MidIdle
    /\ TablesIdle
    /\ HdrIdle
    /\ FireIdle
    /\ fy_col \in FyColumns
    /\ fy_dates \in SeqsUpTo(DateValues, MaxFyRows)
    /\ fy_result = [status |-> "pending"]

\* fire_stats_silver line 154: df = add_financial_year(df)
AddFinancialYear ==
    /\ fy_result.status = "pending"
    /\ fy_result' = add_financial_year(fy_col, fy_dates)
    /\ UNCHANGED <<fy_col, fy_dates, hdrVars, fireVars, midVars, geoVars, popVars, frsVars, laterVars>>

NextFinancialYear == AddFinancialYear

SpecFinancialYear == InitFinancialYear /\ [][NextFinancialYear]_vars

\* C6: add_financial_year gives every row with a parseable date the label
\* 'year/(year+1)%100' when its month is April or later and 'year-1/year%100'
\* otherwise, the suffix always two digits; a row whose date cannot be parsed gets
\* no financial_year value, and no error is raised.
C6_FinancialYearDerivation ==
    (fy_result.status # "pending" /\ IsDateColumn(fy_col)) =>
        /\ fy_result.status = "returned"
        /\ \A k \in 1..Len(fy_dates) :
              LET d == fy_dates[k]
              IN  IF d = NaT THEN fy_result.financial_year[k] = NoValue
                  ELSE IF d.month >= 4
                  THEN fy_result.financial_year[k] =
                           [start |-> d.year,
                            suffix |-> <<((d.year + 1) % 100) \div 10, ((d.year + 1) % 100) % 10>>]
                  ELSE fy_result.financial_year[k] =
                           [start |-> d.year - 1,
                            suffix |-> <<(d.year % 100) \div 10, (d.year % 100) % 10>>]

(***************************************************************************)
(* silver_layer.calculate_midpoint                                         *)
(***************************************************************************)
MaxFragments == 3

\* pieces of the free-text ranges of the source columns
MidFragments ==
    {<<"u", "p", " ", "t", "o", " ">>,
     <<"U", "p", " ", "t", "o", " ">>,
     <<"m", "o", "r", "e", " ", "t", "h", "a", "n", " ">>,
     <<"o", "v", "e", "r", " ">>,
     <<"+">>,
     <<" ", "p", "l", "u", "s">>,
     <<" ", "t", "o", " ">>,
     <<"-">>,
     <<"3">>,
     <<"7">>,
     <<"1", "0">>,
     <<".">>,
     <<"5">>,
     <<"n", "o", "t", " ", "k", "n", "o", "w", "n">>}

RECURSIVE TextsUpTo(_)
\* the texts made of at most n pieces
TextsUpTo(n) ==
    IF n = 0 THEN {<<>>}
    ELSE LET shorter == TextsUpTo(n - 1)
         IN  shorter \cup {s \o f : s \in shorter, f \in MidFragments}

Text(chars) == [kind |-> "text", chars |-> chars]

\* keyword in text
Contains(text, kw) ==
    \E k \in 1..(Len(text) - Len(kw) + 1) : SubSeq(text, k, k + Len(kw) - 1) = kw

DigitChars == <<"0", "1", "2", "3", "4", "5", "6", "7", "8", "9">>

IsDigit(ch) == \E k \in 1..10 : DigitChars[k] = ch

DigitVal(ch) == (CHOOSE k \in 1..10 : DigitChars[k] = ch) - 1

RECURSIVE DigitRun(_)
\* the number of leading digits of s
DigitRun(s) == IF s # <<>> /\ IsDigit(Head(s)) THEN 1 + DigitRun(Tail(s)) ELSE 0

RECURSIVE Pow10(_)
Pow10(k) == IF k = 0 THEN 1 ELSE 10 * Pow10(k - 1)

RECURSIVE IntOf(_)
\* the value of a run of digits
IntOf(ds) == IF ds = <<>> THEN 0 ELSE 10 * IntOf(SubSeq(ds, 1, Len(ds) - 1)) + DigitVal(ds[Len(ds)])

\* float(x) for a match of \d+\.?\d*, as the fraction n / d
FloatOf(intPart, fracPart) ==
    [n |-> IntOf(intPart) * Pow10(Len(fracPart)) + IntOf(fracPart), d |-> Pow10(Len(fracPart))]

RECURSIVE FindNumbers(_)
\* [float(x) for x in re.findall(r"(\d+\.?\d*)", text)]
FindNumbers(s) ==
    IF s = <<>> THEN <<>>
    ELSE IF ~IsDigit(Head(s)) THEN FindNumbers(Tail(s))
    ELSE LET il == DigitRun(s)
             rest == SubSeq(s, il + 1, Len(s))
             dot == rest # <<>> /\ Head(rest) = "."
             fl == IF dot THEN DigitRun(Tail(rest)) ELSE 0
             used == il + (IF dot THEN 1 + fl ELSE 0)
         IN  <<FloatOf(SubSeq(s, 1, il), SubSeq(s, il + 2, il + 1 + fl))>>
             \o FindNumbers(SubSeq(s, used + 1, Len(s)))

RECURSIVE MaxDen(_)
MaxDen(nums) ==
    IF nums = <<>> THEN 1
    ELSE LET m == MaxDen(Tail(nums)) IN IF Head(nums).d > m THEN Head(nums).d ELSE m

RECURSIVE SumOver(_, _)
\* the sum of the numbers, in units of 1 / den
SumOver(nums, den) ==
    IF nums = <<>> THEN 0
    ELSE Head(nums).n * (den \div Head(nums).d) + SumOver(Tail(nums), den)

\* np.mean(numbers)
Mean(nums) == [n |-> SumOver(nums, MaxDen(nums)), d |-> MaxDen(nums) * Len(nums)]

\* numbers[0] / 2
Half(x) == [n |-> x.n, d |-> 2 * x.d]

Value(x) == [kind |-> "value", n |-> x.n, d |-> x.d]

\* the texts of line 102, compared before lowercasing
Placeholders ==
    {<<>>, <<".">>, <<"n", "a", "n">>, <<"N", "o", "n", "e">>,
     <<"n", "o", "t", " ", "k", "n", "o", "w", "n">>}

LowerBoundKeywords ==
    {<<"m", "o", "r", "e">>, <<"o", "v", "e", "r">>, <<"+">>, <<"p", "l", "u", "s">>}

UpTo == <<"u", "p", " ", "t", "o">>

\* np.nan
Nan == [kind |-> "nan"]

\* the branches of lines 108-112 taken in another order
MidpointOf_UpToFirst(text, numbers) ==
    IF Contains(text, UpTo) THEN Value(Half(numbers[1]))
    ELSE IF \E kw \in LowerBoundKeywords : Contains(text, kw) THEN Value(numbers[1])
    ELSE Value(Mean(numbers))

\* lines 108-112
MidpointOf(text, numbers) ==
    IF \E kw \in LowerBoundKeywords : Contains(text, kw) THEN Value(numbers[1])
    ELSE IF Contains(text, UpTo) THEN Value(Half(numbers[1]))
    ELSE Value(Mean(numbers))

\* calculate_midpoint(text_value), lines 101-112
calculate_midpoint(text_value) ==
    IF text_value.kind # "text" \/ Strip(text_value.chars, Whitespace) \in Placeholders
    THEN Nan
    ELSE LET text == Strip(Lower(text_value.chars), Whitespace)
             numbers == FindNumbers(text)
         IN  IF numbers = <<>> THEN Nan ELSE MidpointOf(text, numbers)

InitMidpoint ==
    /\ LaterIdle
    /\ TablesIdle
    /\ HdrIdle
    /\ FireIdle
    /\ FyIdle
    /\ mid_value \in {Text(s) : s \in TextsUpTo(MaxFragments)} \cup {NoValue}
    /\ mid_result = [kind |-> "pending"]

\* fire_stats_silver line 184: df[col].apply(calculate_midpoint), for one cell
CalculateMidpoint ==
    /\ mid_result.kind = "pending"
    /\ mid_result' = calculate_midpoint(mid_value)
    /\ UNCHANGED <<mid_value, hdrVars, fireVars, fyVars, geoVars, popVars, frsVars, laterVars>>

NextMidpoint == CalculateMidpoint

SpecMidpoint == InitMidpoint /\ [][NextMidpoint]_vars

\* the result is the fraction n / d
IsValue(r, n, d) == r.kind = "value" /\ r.n * d = n * r.d

\* the text the policy reads, and the numbers in it
MidText == Strip(Lower(mid_value.chars), Whitespace)
MidNumbers == FindNumbers(MidText)
MidCalled == mid_result.kind # "pending"
MidHasNumber == mid_value.kind = "text" /\ MidNumbers # <<>>
MidLowerBound == \E kw \in LowerBoundKeywords : Contains(MidText, kw)

\* C7 as claimed: empty or placeholder text gives no value; text containing
\* 'up to' gives half the first number; text containing more/over/+/plus gives the
\* first number; any other text gives the mean of its numbers; no number, no value.
C7_MidpointPolicyAsClaimed ==
    MidCalled =>
        /\ (mid_value.kind # "text" \/ ~MidHasNumber) => mid_result = Nan
        /\ (MidHasNumber /\ Contains(MidText, UpTo)) =>
               IsValue(mid_result, MidNumbers[1].n, 2 * MidNumbers[1].d)
        /\ (MidHasNumber /\ MidLowerBound) =>
               IsValue(mid_result, MidNumbers[1].n, MidNumbers[1].d)
        /\ (MidHasNumber /\ ~MidLowerBound /\ ~Contains(MidText, UpTo)) =>
               IsValue(mid_result, Mean(MidNumbers).n, Mean(MidNumbers).d)

\* C7 (amended): empty or placeholder text, and text with no number, give no value;
\* text containing more/over/+/plus gives the first number; text containing 'up to'
\* and none of more/over/+/plus gives half the first number; any other text gives
\* the arithmetic mean of all its numbers.
C7_MidpointPolicy ==
    MidCalled =>
        /\ (mid_value.kind # "text" \/ ~MidHasNumber) => mid_result = Nan
        /\ (MidHasNumber /\ MidLowerBound) =>
               IsValue(mid_result, MidNumbers[1].n, MidNumbers[1].d)
        /\ (MidHasNumber /\ ~MidLowerBound /\ Contains(MidText, UpTo)) =>
               IsValue(mid_result, MidNumbers[1].n, 2 * MidNumbers[1].d)
        /\ (MidHasNumber /\ ~MidLowerBound /\ ~Contains(MidText, UpTo)) =>
               IsValue(mid_result, Mean(MidNumbers).n, Mean(MidNumbers).d)

\* 'up to 10+' was reduced to 10
C7_Witness ==
    /\ MidCalled
    /\ mid_value = Text(<<"u", "p", " ", "t", "o", " ", "1", "0", "+">>)
    /\ IsValue(mid_result, 10, 1)

(***************************************************************************)
(* bronze_layer: remote files, workbooks and Delta tables                  *)
(***************************************************************************)
MaxLinks == 3

Absent == [kind |-> "absent"]        \* no file at the path
Truncated == [kind |-> "truncated"]  \* a file opened 'wb' whose body was not written whole
NoTable == [kind |-> "no_table"]     \* no Delta table at the path

\* hrefs the index page may hold: dir is the path before the last "/", name the
\* last segment split at its "_dataset" tokens, ext the extension
UrlA == [dir |-> "media", name |-> <<"dwellings", "_dataset", "_a">>, ext |-> ".ods"]
UrlB == [dir |-> "media", name |-> <<"dwellings", "_dataset", "_b">>, ext |-> ".ods"]
UrlC == [dir |-> "datasets", name |-> <<"stations">>, ext |-> ".ods"]
UrlE == [dir |-> "media", name |-> <<"dwellings", "_dataset", "_c">>, ext |-> ".ods"]
UrlD == [dir |-> "datasets", name |-> <<"guidance">>, ext |-> ".pdf"]

Hrefs == {UrlA, UrlB, UrlC, UrlD, UrlE}

\* "dataset" in href and href.endswith('.ods')
IsOdsDatasetLink(u) ==
    /\ (u.dir = "datasets" \/ \E k \in 1..Len(u.name) : u.name[k] = "_dataset")
    /\ u.ext = ".ods"

\* url.split("/")[-1]
Filename(u) == u.name \o <<u.ext>>

\* re.match(r"^(.*)_dataset", filename): the text before the last "_dataset"
GroupOf(filename) ==
    LET toks == {k \in 1..Len(filename) : filename[k] = "_dataset"}
    IN  IF toks = {} THEN <<"uncategorized_fire_data">>
        ELSE SubSeq(filename, 1, (CHOOSE k \in toks : \A m \in toks : m <= k) - 1)

Files == {Filename(u) : u \in {v \in Hrefs : IsOdsDatasetLink(v)}}

Groups == {GroupOf(f) : f \in Files}

NfccFile == <<"nfcc_family_groups", ".xlsx">>

NfccTable == <<"NFCC_Family_Groups">>

\* workbooks: a sequence of sheets, each with its name and the columns of its rows
Workbook(sheets) == [kind |-> "workbook", sheets |-> sheets]

WbAB == Workbook(<<[name |-> "202021", cols |-> {"a", "b"}]>>)
WbAC == Workbook(<<[name |-> "Cover", cols |-> {"note"}], [name |-> "Data", cols |-> {"a", "c"}],
                   [name |-> "Notes", cols |-> {"note"}]>>)
WbDataset == Workbook(<<[name |-> "Cover", cols |-> {"note"}], [name |-> "Notes", cols |-> {"note"}],
                        [name |-> "Dataset", cols |-> {"a", "d"}]>>)
WbCover == Workbook(<<[name |-> "Cover", cols |-> {"note"}]>>)

\* the workbook the site serves at each URL, and the files an earlier run may have left
Remote(u) ==
    IF u = UrlA THEN WbAB
    ELSE IF u = UrlB THEN WbAC
    ELSE IF u = UrlE THEN WbCover
    ELSE WbAB

CachedBodies == {WbDataset}

\* re.match(r'^\d{6}$', s)
IsYearSheet(name) == name \in {"202021", "202122"}

\* "dataset" in s.lower()
HasDatasetMarker(name) == name \in {"Dataset"}

\* the indices of the sheets to read (year_sheets), in workbook order
YearSheets(wb) ==
    LET years == {k \in 1..Len(wb.sheets) : IsYearSheet(wb.sheets[k].name)}
        marked == {k \in 1..Len(wb.sheets) : HasDatasetMarker(wb.sheets[k].name)}
    IN  IF years # {} THEN years
        ELSE IF marked # {} THEN {CHOOSE k \in marked : \A m \in marked : k <= m}
        ELSE IF Len(wb.sheets) > 1 THEN {2}
        ELSE {}

RECURSIVE SetToSeq(_)
\* the members of a set of numbers, ascending
SetToSeq(S) ==
    IF S = {} THEN <<>>
    ELSE LET lo == CHOOSE k \in S : \A m \in S : k <= m
         IN  <<lo>> \o SetToSeq(S \ {lo})

\* the provenance columns stamped on the rows of one sheet
Provenance(name) ==
    {"source_file", "source_sheet"} \cup
    (IF IsYearSheet(name) THEN {"sheet_financial_year"} ELSE {})

\* file_combined_df: the concatenated sheets of one file; a row records its file,
\* its sheet and the columns it has a value for
FileFrame(filename, wb) ==
    LET picked == SetToSeq(YearSheets(wb))
        rowOf(k) == [file |-> filename, sheet |-> wb.sheets[k].name,
                     cols |-> wb.sheets[k].cols \cup Provenance(wb.sheets[k].name)]
    IN  [schema |-> UNION {rowOf(k).cols : k \in YearSheets(wb)},
         rows |-> [n \in 1..Len(picked) |-> rowOf(picked[n])]]

\* rows left in a Bronze table by an earlier run
OldTable == [schema |-> {"a", "z", "source_file", "source_sheet"},
             rows |-> <<[file |-> <<"earlier_run">>, sheet |-> "201920",
                         cols |-> {"a", "z", "source_file", "source_sheet"}]>>]

\* deltalake.write_deltalake(path, df, mode, schema_mode): the table after the write
write_deltalake(table, df, mode, schema_mode) ==
    IF mode = "overwrite" \/ table = NoTable
    THEN IF schema_mode = "merge" /\ table # NoTable
         THEN [schema |-> table.schema \cup df.schema, rows |-> df.rows]
         ELSE df
    ELSE [schema |-> IF schema_mode = "merge" THEN table.schema \cup df.schema ELSE df.schema,
          rows |-> table.rows \o df.rows]

\* save_and_vacuum(df, path, context, mode, schema_mode): the vacuum changes no
\* row and no column of the table; its failure is caught
save_and_vacuum(table, df, mode, schema_mode) ==
    write_deltalake(table, df, mode, schema_mode)

\* the entries save_and_vacuum logs
SaveLog(path, vacuumed) ==
    <<[level |-> "info", what |-> "saving", item |-> [table |-> path]],
      IF vacuumed THEN [level |-> "info", what |-> "vacuumed", item |-> [table |-> path]]
      ELSE [level |-> "warning", what |-> "vacuum failed", item |-> [table |-> path]]>>

RECURSIVE Dedup(_, _)
\* the members of s accepted by keep that were not met before, in order
Dedup(s, seen) ==
    IF s = <<>> THEN <<>>
    ELSE IF Head(s) \in seen THEN Dedup(Tail(s), seen)
         ELSE <<Head(s)>> \o Dedup(Tail(s), seen \cup {Head(s)})

\* the lake before a run: new, or as an earlier run left it
InitialLakes ==
    {[landing |-> [f \in Files |-> Absent], bronze |-> [g \in Groups |-> NoTable]]} \cup
    {[landing |-> [f \in Files |-> c], bronze |-> [g \in Groups |-> OldTable]] : c \in CachedBodies}

\* before the first request
NoExchange == [status |-> "none"]

\* a run of fire_stats_bronze_all
InitFire ==
    /\ LaterIdle
    /\ MidIdle
    /\ TablesIdle
    /\ HdrIdle
    /\ FyIdle
    /\ page \in SeqsUpTo(Hrefs, MaxLinks)
    /\ download_queue = <<>>
    /\ \E lake \in InitialLakes : landing = lake.landing /\ bronze = lake.bronze
    /\ local_file_map = <<>>
    /\ group_order = <<>>
    /\ pc = "discover"
    /\ qi = 1
    /\ gi = 1
    /\ fi = 1
    /\ first_write = TRUE
    /\ group_row_count = 0
    /\ results_summary = <<>>
    /\ resp = NoExchange
    /\ writes = <<>>
    /\ log = <<>>
    /\ nfcc_pc = "idle"
    /\ nfcc_resp = NoExchange
    /\ vacuum_ok \in BOOLEAN

\* a run of nfcc_family_group_bronze
InitNfcc ==
    /\ LaterIdle
    /\ MidIdle
    /\ TablesIdle
    /\ HdrIdle
    /\ FyIdle
    /\ page = <<>>
    /\ download_queue = <<>>
    /\ landing \in [{NfccFile} -> {Absent} \cup CachedBodies]
    /\ local_file_map = <<>>
    /\ group_order = <<>>
    /\ pc = "idle"
    /\ qi = 0
    /\ gi = 0
    /\ fi = 0
    /\ first_write = TRUE
    /\ group_row_count = 0
    /\ results_summary = <<>>
    /\ bronze \in [{NfccTable} -> {NoTable, OldTable}]
    /\ resp = NoExchange
    /\ writes = <<>>
    /\ log = <<>>
    /\ nfcc_pc = "fetch"
    /\ nfcc_resp = NoExchange
    /\ vacuum_ok \in BOOLEAN

downloadVars == <<page, download_queue, local_file_map, group_order>>
groupVars == <<gi, fi, first_write, group_row_count, results_summary>>
nfccVars == <<nfcc_pc, nfcc_resp, vacuum_ok>>

\* STEP 1, lines 52-68: the ordered, duplicate-free queue of the page's .ods links
Discover ==
    /\ pc = "discover"
    /\ download_queue' = Dedup(SelectSeq(page, IsOdsDatasetLink), {})
    /\ page' = <<>>
    /\ pc' = "download"
    /\ UNCHANGED <<landing, local_file_map, group_order, qi, groupVars, bronze,
                   resp, writes, log, nfccVars, hdrVars, fyVars, midVars, geoVars, popVars, frsVars, laterVars>>

\* line 53: the request for the index page is outside every try block
DiscoverFailed ==
    /\ pc = "discover"
    /\ pc' = "raised"
    /\ UNCHANGED <<downloadVars, landing, qi, groupVars, bronze, resp, writes, log,
                   nfccVars, hdrVars, fyVars, midVars, geoVars, popVars, frsVars, laterVars>>

\* lines 74-86: the file of the URL joins its group's list before the fetch
Enqueue(filename) ==
    LET g == GroupOf(filename)
    IN  IF g \in DOMAIN local_file_map
        THEN /\ local_file_map' = [local_file_map EXCEPT ![g] = Append(@, filename)]
             /\ group_order' = group_order
        ELSE /\ local_file_map' = (g :> <<filename>>) @@ local_file_map
             /\ group_order' = Append(group_order, g)

\* the common part of one iteration of the download loop
DownloadStep(status, content, entries) ==
    LET url == download_queue[qi]
        filename == Filename(url)
    IN  /\ pc = "download"
        /\ qi <= Len(download_queue)
        /\ Enqueue(filename)
        /\ resp' = [url |-> url, file |-> filename, status |-> status,
                    conditional |-> landing[filename] # Absent]
        /\ landing' = [landing EXCEPT ![filename] = content]
        /\ log' = log \o entries
        /\ qi' = qi + 1
        /\ UNCHANGED <<page, download_queue, pc, groupVars, bronze, writes, nfccVars, hdrVars, fyVars, midVars, geoVars, popVars, frsVars, laterVars>>

\* a 304 handled after the file was opened for writing
DownloadNotModified_Opened ==
    /\ pc = "download" /\ qi <= Len(download_queue)
    /\ landing[Filename(download_queue[qi])] # Absent
    /\ DownloadStep("304", Truncated,
                    <<[level |-> "info", what |-> "skipped", item |-> download_queue[qi]]>>)

\* lines 99-100: 304 to a request that carried If-Modified-Since
DownloadNotModified ==
    /\ pc = "download" /\ qi <= Len(download_queue)
    /\ landing[Filename(download_queue[qi])] # Absent
    /\ DownloadStep("304", landing[Filename(download_queue[qi])],
                    <<[level |-> "info", what |-> "skipped", item |-> download_queue[qi]]>>)

\* lines 102-106: the body replaces the local file
DownloadFresh ==
    /\ pc = "download" /\ qi <= Len(download_queue)
    /\ DownloadStep("200", Remote(download_queue[qi]),
                    <<[level |-> "info", what |-> "downloading", item |-> download_queue[qi]]>>)

\* a failed request that is not caught
DownloadRefused_Uncaught ==
    /\ pc = "download" /\ qi <= Len(download_queue)
    /\ Enqueue(Filename(download_queue[qi]))
    /\ resp' = [url |-> download_queue[qi], file |-> Filename(download_queue[qi]),
                status |-> "error", conditional |-> landing[Filename(download_queue[qi])] # Absent]
    /\ pc' = "raised"
    /\ UNCHANGED <<page, download_queue, landing, qi, groupVars, bronze, writes, log,
                   nfccVars, hdrVars, fyVars, midVars, geoVars, popVars, frsVars, laterVars>>

\* lines 109-111: session.get or raise_for_status raises: nothing was opened
DownloadRefused ==
    /\ pc = "download" /\ qi <= Len(download_queue)
    /\ DownloadStep("error", landing[Filename(download_queue[qi])],
                    <<[level |-> "error", what |-> "download failed", item |-> download_queue[qi]]>>)

\* lines 104-111: the stream breaks after open(local_filepath, 'wb')
DownloadBroken ==
    /\ pc = "download" /\ qi <= Len(download_queue)
    /\ DownloadStep("broken", Truncated,
                    <<[level |-> "info", what |-> "downloading", item |-> download_queue[qi]],
                      [level |-> "error", what |-> "download failed", item |-> download_queue[qi]]>>)

\* the download loop is over, line 113
DownloadsDone ==
    /\ pc = "download"
    /\ qi > Len(download_queue)
    /\ pc' = "group"
    /\ UNCHANGED <<page, download_queue, landing, local_file_map, group_order, qi, groupVars,
                   bronze, resp, writes, log, nfccVars, hdrVars, fyVars, midVars, geoVars, popVars, frsVars, laterVars>>


\* the file the file loop is at
CurrentGroup == group_order[gi]
CurrentFile == local_file_map[CurrentGroup][fi]

\* lines 116-121: a group's iteration begins; line 180 when no group is left
StartGroup ==
    /\ pc = "group"
    /\ gi <= Len(group_order)
    /\ first_write' = TRUE
    /\ group_row_count' = 0
    /\ fi' = 1
    /\ pc' = "file"
    /\ log' = Append(log, [level |-> "info", what |-> "processing group", item |-> [table |-> CurrentGroup]])
    /\ UNCHANGED <<downloadVars, landing, qi, gi, results_summary, bronze, resp, writes,
                   nfccVars, hdrVars, fyVars, midVars, geoVars, popVars, frsVars, laterVars>>

\* line 180: return MaterializeResult(...)
Return ==
    /\ pc = "group"
    /\ gi > Len(group_order)
    /\ pc' = "done"
    /\ UNCHANGED <<downloadVars, landing, qi, groupVars, bronze, resp, writes, log,
                   nfccVars, hdrVars, fyVars, midVars, geoVars, popVars, frsVars, laterVars>>

AtFile == pc = "file" /\ fi <= Len(local_file_map[CurrentGroup])

\* what one iteration of the file loop leaves unchanged besides the table and the flag
NextFile(entries) ==
    /\ fi' = fi + 1
    /\ log' = log \o entries
    /\ UNCHANGED <<downloadVars, landing, pc, qi, gi, results_summary, resp, nfccVars, hdrVars, fyVars, midVars, geoVars, popVars, frsVars, laterVars>>

\* line 124: if not filepath.exists(): continue
FileMissing ==
    /\ AtFile
    /\ landing[CurrentFile] = Absent
    /\ NextFile(<<>>)
    /\ UNCHANGED <<first_write, group_row_count, bronze, writes>>

\* lines 128, 174-175: pd.ExcelFile raises on a file that is no workbook
FileUnreadable ==
    /\ AtFile
    /\ landing[CurrentFile] = Truncated
    /\ NextFile(<<[level |-> "error", what |-> "error reading", item |-> [file |-> CurrentFile]]>>)
    /\ UNCHANGED <<first_write, group_row_count, bronze, writes>>

\* lines 139-141: no sheet to read
FileNoSheets ==
    /\ AtFile
    /\ landing[CurrentFile] \notin {Absent, Truncated}
    /\ YearSheets(landing[CurrentFile]) = {}
    /\ NextFile(<<[level |-> "warning", what |-> "no valid sheets", item |-> [file |-> CurrentFile]]>>)
    /\ UNCHANGED <<first_write, group_row_count, bronze, writes>>

Readable == 
    /\ AtFile
    /\ landing[CurrentFile] \notin {Absent, Truncated}
    /\ YearSheets(landing[CurrentFile]) # {}

ModeOf_AlwaysOverwrite(first) == "overwrite"
SchemaModeOf_NeverMerge(first) == "overwrite"

\* lines 166-167
ModeOf(first) == IF first THEN "overwrite" ELSE "append"
SchemaModeOf(first) == IF first THEN "overwrite" ELSE "merge"

\* lines 143-172: the file's rows are written to the group's table
FileWritten ==
    /\ Readable
    /\ LET df == FileFrame(CurrentFile, landing[CurrentFile])
           mode == ModeOf(first_write)
           schema_mode == SchemaModeOf(first_write)
       IN  /\ bronze' = [bronze EXCEPT ![CurrentGroup] = save_and_vacuum(@, df, mode, schema_mode)]
           /\ writes' = Append(writes, [table |-> CurrentGroup, file |-> CurrentFile, mode |-> mode,
                                        schema_mode |-> schema_mode, ok |-> TRUE])
           /\ group_row_count' = group_row_count + Len(df.rows)
           /\ first_write' = FALSE
           /\ NextFile(SaveLog(CurrentGroup, vacuum_ok))

\* lines 169, 174-175: write_deltalake raises; the table keeps its last version
FileWriteFailed ==
    /\ Readable
    /\ writes' = Append(writes, [table |-> CurrentGroup, file |-> CurrentFile,
                                 mode |-> ModeOf(first_write),
                                 schema_mode |-> SchemaModeOf(first_write), ok |-> FALSE])
    /\ NextFile(<<[level |-> "info", what |-> "saving", item |-> [table |-> CurrentGroup]],
                  [level |-> "error", what |-> "error reading", item |-> [file |-> CurrentFile]]>>)
    /\ UNCHANGED <<first_write, group_row_count, bronze>>

\* lines 177-178: the group joins the summary when a file of it was written
EndGroup ==
    /\ pc = "file"
    /\ fi > Len(local_file_map[CurrentGroup])
    /\ results_summary' = IF first_write THEN results_summary
                          ELSE (CurrentGroup :> group_row_count) @@ results_summary
    /\ gi' = gi + 1
    /\ pc' = "group"
    /\ UNCHANGED <<downloadVars, landing, qi, fi, first_write, group_row_count, bronze, resp,
                   writes, log, nfccVars, hdrVars, fyVars, midVars, geoVars, popVars, frsVars, laterVars>>

(***************************************************************************)
(* bronze_layer.nfcc_family_group_bronze                                   *)
(***************************************************************************)
nfccFrame == <<page, download_queue, local_file_map, group_order, pc, qi, groupVars, resp,
               writes, hdrVars, fyVars, midVars, geoVars, popVars, frsVars, laterVars>>

\* lines 211-212
NfccNotModified ==
    /\ nfcc_pc = "fetch"
    /\ landing[NfccFile] # Absent
    /\ nfcc_resp' = [status |-> "304", conditional |-> TRUE]
    /\ nfcc_pc' = "parse"
    /\ log' = Append(log, [level |-> "info", what |-> "skipped", item |-> [file |-> NfccFile]])
    /\ UNCHANGED <<landing, bronze, vacuum_ok, nfccFrame>>

\* lines 214-217
NfccFresh ==
    /\ nfcc_pc = "fetch"
    /\ \E body \in {WbAB, WbAC} : landing' = [landing EXCEPT ![NfccFile] = body]
    /\ nfcc_resp' = [status |-> "200", conditional |-> landing[NfccFile] # Absent]
    /\ nfcc_pc' = "parse"
    /\ log' = Append(log, [level |-> "info", what |-> "download complete", item |-> [file |-> NfccFile]])
    /\ UNCHANGED <<bronze, vacuum_ok, nfccFrame>>

\* lines 219-220: any failure of the fetch is raised again
NfccFetchFailed ==
    /\ nfcc_pc = "fetch"
    /\ \E opened \in BOOLEAN :
          landing' = IF opened THEN [landing EXCEPT ![NfccFile] = Truncated] ELSE landing
    /\ nfcc_resp' = [status |-> "error", conditional |-> landing[NfccFile] # Absent]
    /\ nfcc_pc' = "raised"
    /\ UNCHANGED <<log, bronze, vacuum_ok, nfccFrame>>

\* df of lines 225-251: the first sheet with its provenance column
NfccDf(wb) ==
    LET cols == wb.sheets[1].cols \cup {"ingestion_source"}
    IN  [schema |-> cols,
         rows |-> <<[file |-> NfccFile, sheet |-> wb.sheets[1].name, cols |-> cols]>>]

\* lines 223-266
NfccIngest ==
    /\ nfcc_pc = "parse"
    /\ landing[NfccFile] # Truncated
    /\ log' = log \o SaveLog(NfccTable, vacuum_ok)
                   \o <<[level |-> "info", what |-> "ingested", item |-> [table |-> NfccTable]]>>
    /\ bronze' = [bronze EXCEPT ![NfccTable] =
                     save_and_vacuum(@, NfccDf(landing[NfccFile]), "overwrite", "overwrite")]
    /\ nfcc_pc' = "done"
    /\ UNCHANGED <<landing, nfcc_resp, vacuum_ok, nfccFrame>>

\* lines 253-254, 262: the parse or the write raises
NfccIngestFailed ==
    /\ nfcc_pc = "parse"
    /\ nfcc_pc' = "raised"
    /\ UNCHANGED <<landing, log, bronze, nfcc_resp, vacuum_ok, nfccFrame>>

NextBronze ==
    \/ Discover
    \/ DiscoverFailed
    \/ DownloadNotModified
    \/ DownloadFresh
    \/ DownloadRefused
    \/ DownloadBroken
    \/ DownloadsDone
    \/ StartGroup
    \/ FileMissing
    \/ FileUnreadable
    \/ FileNoSheets
    \/ FileWritten
    \/ FileWriteFailed
    \/ EndGroup
    \/ Return
    \/ NfccNotModified
    \/ NfccFresh
    \/ NfccFetchFailed
    \/ NfccIngest
    \/ NfccIngestFailed

SpecBronze == (InitFire \/ InitNfcc) /\ [][NextBronze]_vars

(***************************************************************************)
(* Claims on the Bronze assets                                             *)
(***************************************************************************)
\* C2: a not-modified (304) answer never writes the local cache file: in the
\* download loop of fire_stats_bronze_all and in the fetch of
\* nfcc_family_group_bronze, the step that receives 304 for a URL whose file
\* exists leaves every landing file with the content it had before.
C2_NotModifiedKeepsCache ==
    [][/\ (qi' = qi + 1 /\ resp'.status = "304") =>
              (resp'.conditional /\ landing[resp'.file] # Absent /\ landing' = landing)
       /\ (nfcc_pc = "fetch" /\ nfcc_pc' # "fetch" /\ nfcc_resp'.status = "304") =>
              (landing[NfccFile] # Absent /\ landing' = landing)]_vars

\* a 304 was received for a cached file, which still holds the cached workbook
C2_Witness ==
    \/ pc = "download" /\ resp.status = "304" /\ landing[resp.file] = WbDataset
    \/ nfcc_pc = "parse" /\ nfcc_resp.status = "304" /\ landing[NfccFile] = WbDataset

\* the files of the successful writes to a table, in order
RECURSIVE WrittenFiles(_, _)
WrittenFiles(ws, table) ==
    IF ws = <<>> THEN <<>>
    ELSE (IF Head(ws).table = table /\ Head(ws).ok THEN <<Head(ws).file>> ELSE <<>>)
         \o WrittenFiles(Tail(ws), table)

\* the run is over and wrote exactly two files to the table: first one holding
\* columns {a, b} on a year sheet, then one holding {a, c}
TwoFilesABthenAC(table) ==
    /\ pc = "done"
    /\ Len(WrittenFiles(writes, table)) = 2
    /\ landing[WrittenFiles(writes, table)[1]] = WbAB
    /\ landing[WrittenFiles(writes, table)[2]] = WbAC

\* C3: two files of one group processed in one run, the first with columns {a, b}
\* and the second with {a, c}, leave the group's table with schema {a, b, c} plus
\* the provenance columns, holding exactly the rows of both files: the rows of file
\* 1 have no c, those of file 2 no b, and no row of an earlier run remains.
C3_SchemaUnionOfTwoFiles ==
    \A g \in Groups :
        TwoFilesABthenAC(g) =>
            LET f1 == WrittenFiles(writes, g)[1]
                f2 == WrittenFiles(writes, g)[2]
                t == bronze[g]
            IN  /\ t # NoTable
                /\ t.schema = {"a", "b", "c", "source_file", "source_sheet", "sheet_financial_year"}
                /\ Len(t.rows) = 2
                /\ t.rows[1].file = f1 /\ t.rows[1].cols \cap {"a", "b", "c"} = {"a", "b"}
                /\ t.rows[2].file = f2 /\ t.rows[2].cols \cap {"a", "b", "c"} = {"a", "c"}
                /\ \A k \in 1..Len(t.rows) : t.rows[k].file # <<"earlier_run">>

\* such a run, over a table that held rows of an earlier run
C3_Witness ==
    \E g \in Groups :
        /\ TwoFilesABthenAC(g)
        /\ \E k \in 1..Len(bronze[g].rows) : "c" \notin bronze[g].rows[k].cols
        /\ \E k \in 1..Len(log) : log[k].what = "processing group" /\ log[k].item = [table |-> g]
        /\ results_summary[g] = 2

\* the position of a file in the download queue
QueuePos(file) ==
    CHOOSE k \in 1..Len(download_queue) :
        /\ Filename(download_queue[k]) = file
        /\ \A m \in 1..(k - 1) : Filename(download_queue[m]) # file

\* C4: within a run and a group, Bronze writes follow the file queue's order; the
\* first write of the group's table is overwrite with schema overwrite, every
\* later one append with schema merge; once a write to the table has succeeded no
\* write_deltalake call of the run overwrites it, whatever was skipped or failed.
C4_WriteProtocol ==
    \A k \in 1..Len(writes) :
        LET w == writes[k]
            earlier == {j \in 1..(k - 1) : writes[j].table = w.table /\ writes[j].ok}
        IN  /\ earlier = {} => (w.mode = "overwrite" /\ w.schema_mode = "overwrite")
            /\ earlier # {} => (w.mode = "append" /\ w.schema_mode = "merge")
            /\ \A j \in 1..(k - 1) :
                   writes[j].table = w.table => QueuePos(writes[j].file) < QueuePos(w.file)

\* a group of three files: the first was written, the write of the second failed
\* and the third was appended
C4_Witness ==
    /\ pc = "done"
    /\ Len(writes) = 3
    /\ writes[1].table = writes[3].table /\ writes[2].table = writes[3].table
    /\ writes[1].ok /\ writes[1].mode = "overwrite"
    /\ ~writes[2].ok
    /\ writes[3].ok /\ writes[3].mode = "append"

Logged(level, item) == \E k \in 1..Len(log) : log[k].level = level /\ log[k].item = item

\* C5: a failure while downloading one queued URL, or while reading, parsing or
\* writing one file, is caught and logged at that item: the run raises only before
\* the first download, every URL of the queue is attempted, every file present in
\* a group is read, and the asset returns.
C5_FailuresAreLocal ==
    /\ pc = "raised" => (resp.status = "none" /\ writes = <<>>)
    /\ (resp.status \in {"error", "broken"}) => Logged("error", resp.url)
    /\ \A k \in 1..Len(writes) : ~writes[k].ok => Logged("error", [file |-> writes[k].file])
    /\ pc \in {"group", "file", "done"} =>
           \A k \in 1..Len(download_queue) :
               \E n \in 1..Len(log) : log[n].item = download_queue[k]
    /\ pc = "done" =>
           \A g \in DOMAIN local_file_map :
               \A k \in 1..Len(local_file_map[g]) :
                   LET f == local_file_map[g][k]
                   IN  \/ landing[f] = Absent
                       \/ \E n \in 1..Len(log) : log[n].item = [file |-> f]
                       \/ \E n \in 1..Len(writes) : writes[n].file = f /\ writes[n].ok
    /\ pc \in {"download", "group", "file"} => ENABLED NextBronze

\* the first download failed, a file could not be read, and a later file was written
C5_Witness ==
    /\ pc = "done"
    /\ Len(download_queue) >= 2
    /\ Logged("error", download_queue[1])
    /\ \E k \in 1..Len(log) : log[k].what = "error reading"
    /\ \E k \in 1..Len(writes) : writes[k].ok /\ QueuePos(writes[k].file) > 1
    /\ DOMAIN results_summary # {}

(***************************************************************************)
(* gold_layer.dim_geography                                                *)
(***************************************************************************)
MaxLsoaRows == 2
MaxFraRows == 2

LsoaCodes == {"E01000001", "E01000002"}
LadCodes == {"E06000001", "E06000002"}
FraCodes == {"E31000001", "E31000017", "E31000048"}

Table(rows) == [kind |-> "table", rows |-> rows]

\* the cell pandas leaves where a left join found no match
NullCell == "NaN"

FRS_MAPPINGS == [c \in {"E31000017", "E31000021"} |-> "E31000048"]

\* Series.replace(FRS_MAPPINGS), for one cell
ReplaceFrs(code) == IF code \in DOMAIN FRS_MAPPINGS THEN FRS_MAPPINGS[code] ELSE code

RECURSIVE MergeLadFra(_, _)
\* pd.merge(left, right, left_on=lad, right_on=lad, how="left"): left order kept,
\* the matches of one left row in right order
MergeLadFra(left, right) ==
    IF left = <<>> THEN <<>>
    ELSE LET l == Head(left)
             SameLad(r) == r.lad_code = l.lad_code
             matches == SelectSeq(right, SameLad)
             Joined(code) == [lsoa_code |-> l.lsoa_code, lad_code |-> l.lad_code, frs_code |-> code]
         IN  (IF matches = <<>> THEN <<Joined(NullCell)>>
              ELSE [k \in 1..Len(matches) |-> Joined(matches[k].frs_code)])
             \o MergeLadFra(Tail(left), right)

Reverse(s) == [k \in 1..Len(s) |-> s[Len(s) + 1 - k]]

RECURSIVE DropDuplicateLsoa(_, _)
\* the rows whose lsoa_code was not met before, in order
DropDuplicateLsoa(rows, seen) ==
    IF rows = <<>> THEN <<>>
    ELSE IF Head(rows).lsoa_code \in seen THEN DropDuplicateLsoa(Tail(rows), seen)
    ELSE <<Head(rows)>> \o DropDuplicateLsoa(Tail(rows), seen \cup {Head(rows).lsoa_code})

\* drop_duplicates(subset=['lsoa_code'], keep='last')
DeduplicateGeography_KeepLast(rows) == Reverse(DropDuplicateLsoa(Reverse(rows), {}))

\* line 89: drop_duplicates(subset=['lsoa_code'], keep='first')
DeduplicateGeography(rows) == DropDuplicateLsoa(rows, {})

\* lines 58-89: df_gold as saved
GeographyFrame(left, right) ==
    LET df_joined == MergeLadFra(left, right)
        df_gold == [k \in 1..Len(df_joined) |->
                       [df_joined[k] EXCEPT !.frs_code = ReplaceFrs(df_joined[k].frs_code)]]
    IN  DeduplicateGeography(df_gold)

LsoaLadRows == [lsoa_code : LsoaCodes, lad_code : LadCodes]
LadFraRows == [lad_code : LadCodes, frs_code : FraCodes]

\* a Dim_Geography left by an earlier run
OldGeography ==
    <<[lsoa_code |-> "E01000009", lad_code |-> "E06000009", frs_code |-> "E31000009"]>>

InitGeography ==
    /\ LaterIdle
    /\ HdrIdle
    /\ FireIdle
    /\ FyIdle
    /\ MidIdle
    /\ PopIdle
    /\ FrsIdle
    /\ geo_lsoa_lad \in {Table(r) : r \in SeqsUpTo(LsoaLadRows, MaxLsoaRows)} \cup {NoTable}
    /\ geo_lad_fra \in {Table(r) : r \in SeqsUpTo(LadFraRows, MaxFraRows)} \cup {NoTable}
    /\ geo_dim \in {<<>>, OldGeography}
    /\ geo_result = [status |-> "pending"]

\* lines 46-50: a lookup cannot be read
DimGeographyMissing ==
    /\ geo_result.status = "pending"
    /\ geo_lsoa_lad = NoTable \/ geo_lad_fra = NoTable
    /\ geo_result' = [status |-> "raised"]
    /\ UNCHANGED <<geo_lsoa_lad, geo_lad_fra, geo_dim>>
    /\ UNCHANGED <<hdrVars, fireVars, fyVars, midVars, popVars, frsVars, laterVars>>

\* lines 52-94: join, map, deduplicate, overwrite Dim_Geography
DimGeography ==
    /\ geo_result.status = "pending"
    /\ geo_lsoa_lad # NoTable /\ geo_lad_fra # NoTable
    /\ geo_dim' = GeographyFrame(geo_lsoa_lad.rows, geo_lad_fra.rows)
    /\ geo_result' = [status |-> "written"]
    /\ UNCHANGED <<geo_lsoa_lad, geo_lad_fra>>
    /\ UNCHANGED <<hdrVars, fireVars, fyVars, midVars, popVars, frsVars, laterVars>>

NextGeography == DimGeography \/ DimGeographyMissing

SpecGeography == InitGeography /\ [][NextGeography]_vars

\* the first row of rows whose lsoa_code is code
FirstWithLsoa(rows, code) ==
    rows[CHOOSE k \in DOMAIN rows :
            /\ rows[k].lsoa_code = code
            /\ \A j \in 1..(k - 1) : rows[j].lsoa_code # code]

\* the organization code the first matching row of the LAD lookup gives a LAD
FirstFrsOfLad(right, lad) ==
    LET ms == {k \in DOMAIN right : right[k].lad_code = lad}
    IN  IF ms = {} THEN NullCell
        ELSE ReplaceFrs(right[CHOOSE k \in ms : \A j \in ms : k <= j].frs_code)

\* C8: the Dim_Geography that dim_geography writes has exactly one row for every
\* lsoa_code of the LSOA lookup and no other row, whatever the two lookups hold;
\* the row of a key is the first one the join produced for it: the LAD of the
\* key's first lookup row with the first organization row that LAD joins to.
C8_OneRowPerLsoa ==
    geo_result.status = "written" =>
        LET left == geo_lsoa_lad.rows
            right == geo_lad_fra.rows
        IN  /\ \A k \in DOMAIN left :
                   Cardinality({j \in DOMAIN geo_dim : geo_dim[j].lsoa_code = left[k].lsoa_code}) = 1
            /\ \A j \in DOMAIN geo_dim :
                   /\ \E k \in DOMAIN left : left[k].lsoa_code = geo_dim[j].lsoa_code
                   /\ geo_dim[j].lad_code = FirstWithLsoa(left, geo_dim[j].lsoa_code).lad_code
                   /\ geo_dim[j].frs_code = FirstFrsOfLad(right, geo_dim[j].lad_code)

\* one key listed under two LADs, the first LAD joining to two organizations:
\* three joined rows, one kept
C8_Witness ==
    /\ geo_result.status = "written"
    /\ Len(geo_lsoa_lad.rows) = 2 /\ Len(geo_lad_fra.rows) = 2
    /\ geo_lsoa_lad.rows[1].lsoa_code = geo_lsoa_lad.rows[2].lsoa_code
    /\ geo_lsoa_lad.rows[1].lad_code # geo_lsoa_lad.rows[2].lad_code
    /\ geo_lad_fra.rows[1].lad_code = geo_lsoa_lad.rows[1].lad_code
    /\ geo_lad_fra.rows[2].lad_code = geo_lsoa_lad.rows[1].lad_code
    /\ geo_lad_fra.rows[1].frs_code = "E31000017"
    /\ geo_lad_fra.rows[2].frs_code = "E31000001"
    /\ Len(geo_dim) = 1
    /\ geo_dim[1].frs_code = "E31000048"

(***************************************************************************)
(* silver_layer.population_silver                                          *)
(***************************************************************************)
MaxPopRows == 2

min_year == 2010
max_year == 2025

\* np.arange(min_year, max_year + 1)
all_years == min_year..max_year

\* the all-digit column names a Bronze population table may carry: one year
\* below the range, one year inside, a year below the range with one inside, two
\* years inside with a gap between them
PopYearColumns == {{2009}, {2020}, {2009, 2015}, {2015, 2020}}

\* the cells of a year column: blank, '5', '1,007'
PopCells == {<<>>, <<"5">>, <<"1", ",", "0", "0", "7">>}

NotComma(ch) == ch # ","

\* line 232: to_numeric(astype(str).str.replace(",", ""), errors='coerce').fillna(0).astype(int)
ToPopulation(cell) ==
    LET text == SelectSeq(cell, NotComma)
    IN  IF text # <<>> /\ DigitRun(text) = Len(text) THEN IntOf(text) ELSE 0

\* the wide rows over the year columns cols
PopRows(cols) == [lsoa_code : LsoaCodes, cells : [cols -> PopCells]]

PopTables ==
    UNION {{[kind |-> "table", year_cols |-> cols, rows |-> r] :
               r \in SeqsUpTo(PopRows(cols), MaxPopRows)} : cols \in PopYearColumns}

RECURSIVE Melt(_, _)
\* line 230: df.melt, one block of rows per year column
Melt(years, rows) ==
    IF years = <<>> THEN <<>>
    ELSE [k \in 1..Len(rows) |->
             [lsoa_code |-> rows[k].lsoa_code, year |-> Head(years),
              population |-> ToPopulation(rows[k].cells[Head(years)])]]
         \o Melt(Tail(years), rows)

RECURSIVE Unique(_, _)
\* Series.unique(): the values in order of first appearance
Unique(s, seen) ==
    IF s = <<>> THEN <<>>
    ELSE IF Head(s) \in seen THEN Unique(Tail(s), seen)
    ELSE <<Head(s)>> \o Unique(Tail(s), seen \cup {Head(s)})

RECURSIVE FromProduct(_, _)
\* lines 238-239: MultiIndex.from_product([unique_lsoas, all_years]) as rows
FromProduct(lsoas, years) ==
    IF lsoas = <<>> THEN <<>>
    ELSE [k \in 1..Len(years) |-> [lsoa_code |-> Head(lsoas), year |-> years[k]]]
         \o FromProduct(Tail(lsoas), years)

RECURSIVE MergeScaffold(_, _)
\* line 240: pd.merge(df_scaffold, df_long, on=['lsoa_code', 'year'], how='left')
MergeScaffold(scaffold, long) ==
    IF scaffold = <<>> THEN <<>>
    ELSE LET s == Head(scaffold)
             SameCell(r) == r.lsoa_code = s.lsoa_code /\ r.year = s.year
             matches == SelectSeq(long, SameCell)
             Joined(v) == [lsoa_code |-> s.lsoa_code, year |-> s.year, population |-> v]
         IN  (IF matches = <<>> THEN <<Joined(NaN)>>
              ELSE [k \in 1..Len(matches) |-> Joined(Num(matches[k].population))])
             \o MergeScaffold(Tail(scaffold), long)

\* the order of the codes as strings
LsoaOrder == <<"E01000001", "E01000002">>

RECURSIVE SortLsoaYear(_, _, _)
\* line 241: sort_values(['lsoa_code', 'year']), rows of equal keys in their old order
SortLsoaYear(rows, ci, y) ==
    IF ci > Len(LsoaOrder) THEN <<>>
    ELSE IF y > max_year THEN SortLsoaYear(rows, ci + 1, min_year)
    ELSE LET InCell(r) == r.lsoa_code = LsoaOrder[ci] /\ r.year = y
         IN  SelectSeq(rows, InCell) \o SortLsoaYear(rows, ci, y + 1)

\* ['population'].ffill() without the groupby: the last value above, in any group
Ffill_Ungrouped(rows) ==
    [k \in 1..Len(rows) |->
        IF rows[k].population # NaN THEN rows[k].population
        ELSE LET above == {j \in 1..(k - 1) : rows[j].population # NaN}
             IN  IF above = {} THEN NaN
                 ELSE rows[CHOOSE j \in above : \A m \in above : m <= j].population]

\* groupby('lsoa_code')['population'].ffill(): the last value above in the same group
Ffill(rows) ==
    [k \in 1..Len(rows) |->
        IF rows[k].population # NaN THEN rows[k].population
        ELSE LET above == {j \in 1..(k - 1) : /\ rows[j].lsoa_code = rows[k].lsoa_code
                                              /\ rows[j].population # NaN}
             IN  IF above = {} THEN NaN
                 ELSE rows[CHOOSE j \in above : \A m \in above : m <= j].population]

\* Series.bfill(): the next value below, in any group
Bfill(col) ==
    [k \in 1..Len(col) |->
        IF col[k] # NaN THEN col[k]
        ELSE LET below == {j \in (k + 1)..Len(col) : col[j] # NaN}
             IN  IF below = {} THEN NaN
                 ELSE col[CHOOSE j \in below : \A m \in below : j <= m]]

\* .fillna(0).astype(int)
FillZero(col) == [k \in 1..Len(col) |-> IF col[k] = NaN THEN 0 ELSE col[k].v]

\* lines 227-242: df_final as saved
PopulationFrame(table) ==
    LET df_long == Melt(SetToSeq(table.year_cols), table.rows)
        unique_lsoas == Unique([k \in 1..Len(df_long) |-> df_long[k].lsoa_code], {})
        df_scaffold == FromProduct(unique_lsoas, SetToSeq(all_years))
        df_final == SortLsoaYear(MergeScaffold(df_scaffold, df_long), 1, min_year)
        population == FillZero(Bfill(Ffill(df_final)))
    IN  [k \in 1..Len(df_final) |->
            [lsoa_code |-> df_final[k].lsoa_code, year |-> df_final[k].year,
             population |-> population[k]]]

InitPopulation ==
    /\ LaterIdle
    /\ HdrIdle
    /\ FireIdle
    /\ FyIdle
    /\ MidIdle
    /\ GeoIdle
    /\ FrsIdle
    /\ pop_bronze \in PopTables \cup {NoTable}
    /\ pop_long = <<>>
    /\ pop_result = [status |-> "pending"]

\* line 221: no Bronze table
PopulationSilverMissing ==
    /\ pop_result.status = "pending"
    /\ pop_bronze = NoTable
    /\ pop_result' = [status |-> "raised"]
    /\ UNCHANGED <<pop_bronze, pop_long>>
    /\ UNCHANGED <<hdrVars, fireVars, fyVars, midVars, geoVars, frsVars, laterVars>>

\* lines 223-246: unpivot, scaffold, fill, overwrite population_long
PopulationSilver ==
    /\ pop_result.status = "pending"
    /\ pop_bronze # NoTable
    /\ pop_long' = PopulationFrame(pop_bronze)
    /\ pop_result' = [status |-> "written"]
    /\ UNCHANGED pop_bronze
    /\ UNCHANGED <<hdrVars, fireVars, fyVars, midVars, geoVars, frsVars, laterVars>>

NextPopulation == PopulationSilver \/ PopulationSilverMissing

SpecPopulation == InitPopulation /\ [][NextPopulation]_vars

\* the years the Bronze table observes, within the range
ObservedYears == pop_bronze.year_cols \cap all_years

\* the values the Bronze table holds for a key in a year
ObservedAt(key, y) ==
    {ToPopulation(pop_bronze.rows[k].cells[y]) :
        k \in {j \in DOMAIN pop_bronze.rows : pop_bronze.rows[j].lsoa_code = key}}

PopulationOf(key, y) ==
    {k \in DOMAIN pop_long : pop_long[k].lsoa_code = key /\ pop_long[k].year = y}

FirstObserved == CHOOSE y \in ObservedYears : \A z \in ObservedYears : y <= z
LastObserved == CHOOSE y \in ObservedYears : \A z \in ObservedYears : z <= y

\* C9: population_long holds, for every key of the Bronze table and every year
\* 2010..2025, exactly one value; a year before the key's first observed year has
\* the first observed value, a year after its last observed year the last one.
C9_PopulationScaffold ==
    pop_result.status = "written" =>
        \A k \in DOMAIN pop_bronze.rows : \A y \in all_years :
            LET key == pop_bronze.rows[k].lsoa_code
            IN  /\ Cardinality(PopulationOf(key, y)) = 1
                /\ (ObservedYears # {} /\ y < FirstObserved) =>
                       \A j \in PopulationOf(key, y) :
                           pop_long[j].population \in ObservedAt(key, FirstObserved)
                /\ (ObservedYears # {} /\ y > LastObserved) =>
                       \A j \in PopulationOf(key, y) :
                           pop_long[j].population \in ObservedAt(key, LastObserved)

(***************************************************************************)
(* gold_layer.dim_frs                                                      *)
(***************************************************************************)
MaxPairs == 2
MaxNfccRows == 2

\* the code cells of the Silver fire tables, in string order; the last is no E-code
SilverCodes == <<"E31000001", "E31000017", "E31000048", "Unknown">>

MASTER_FRS_NAMES ==
    [c \in {"E31000048", "E31000047", "E31000008"} |->
        IF c = "E31000048" THEN "Hampshire and Isle of Wight Fire and Rescue Service"
        ELSE IF c = "E31000047" THEN "Dorset & Wiltshire" ELSE "Cornwall"]

\* the name cells of the Silver fire tables, with len(name)
NameLen ==
    [n \in {"Avon", "Avon Fire and Rescue Service", MASTER_FRS_NAMES["E31000048"]} |->
        IF n = "Avon" THEN 4 ELSE IF n = "Avon Fire and Rescue Service" THEN 28 ELSE 51]

SilverNames == {"Avon", "Avon Fire and Rescue Service"}

\* line 187: len(c) == 9 and c[0] in ['E', 'S', 'W']
IsFrsCode(c) == c # "Unknown"

CodeRank(c) == CHOOSE k \in DOMAIN SilverCodes : SilverCodes[k] = c

RECURSIVE HarvestPairs_NameKept(_)
\* the remapping without lines 191-192: the code is replaced, the name is not
HarvestPairs_NameKept(pairs) ==
    IF pairs = <<>> THEN <<>>
    ELSE LET c == Head(pairs).code
             code == IF c \in DOMAIN FRS_MAPPINGS THEN FRS_MAPPINGS[c] ELSE c
         IN  (IF IsFrsCode(c) THEN <<[frs_e_code |-> code, frs_name |-> Head(pairs).name]>> ELSE <<>>)
             \o HarvestPairs_NameKept(Tail(pairs))

RECURSIVE HarvestPairs(_)
\* lines 183-194: the pairs kept, historical codes mapped to their master code and name
HarvestPairs(pairs) ==
    IF pairs = <<>> THEN <<>>
    ELSE LET c == Head(pairs).code
             n == Head(pairs).name
             mapped == c \in DOMAIN FRS_MAPPINGS
             code == IF mapped THEN FRS_MAPPINGS[c] ELSE c
             name == IF mapped /\ code \in DOMAIN MASTER_FRS_NAMES
                     THEN MASTER_FRS_NAMES[code] ELSE n
         IN  (IF IsFrsCode(c) THEN <<[frs_e_code |-> code, frs_name |-> name]>> ELSE <<>>)
             \o HarvestPairs(Tail(pairs))

\* the sort with ascending=[True, True]
Before_ShortestFirst(a, b) ==
    \/ CodeRank(a.frs_e_code) < CodeRank(b.frs_e_code)
    \/ /\ a.frs_e_code = b.frs_e_code
       /\ NameLen[a.frs_name] < NameLen[b.frs_name]

\* row a sorts before row b
Before(a, b) ==
    \/ CodeRank(a.frs_e_code) < CodeRank(b.frs_e_code)
    \/ /\ a.frs_e_code = b.frs_e_code
       /\ NameLen[a.frs_name] > NameLen[b.frs_name]

RECURSIVE InsertSorted(_, _)
InsertSorted(row, sorted) ==
    IF sorted = <<>> THEN <<row>>
    ELSE IF Before(row, Head(sorted)) THEN <<row>> \o sorted
    ELSE <<Head(sorted)>> \o InsertSorted(row, Tail(sorted))

RECURSIVE SortPairs(_)
\* line 203: sort_values(by=['frs_e_code', 'name_len'], ascending=[True, False]),
\* rows of equal keys in their old order
SortPairs(rows) ==
    IF rows = <<>> THEN <<>>
    ELSE InsertSorted(rows[Len(rows)], SortPairs(SubSeq(rows, 1, Len(rows) - 1)))

RECURSIVE DropDuplicateCodes(_, _)
\* line 205: drop_duplicates(subset=['frs_e_code'], keep='first')
DropDuplicateCodes(rows, seen) ==
    IF rows = <<>> THEN <<>>
    ELSE IF Head(rows).frs_e_code \in seen THEN DropDuplicateCodes(Tail(rows), seen)
    ELSE <<Head(rows)>> \o DropDuplicateCodes(Tail(rows), seen \cup {Head(rows).frs_e_code})

RECURSIVE MergeFamilyGroups(_, _)
\* lines 216-220: left merge on frs_e_code = master_frs_code, then fillna("Unknown")
MergeFamilyGroups(left, right) ==
    IF left = <<>> THEN <<>>
    ELSE LET l == Head(left)
             SameCode(r) == r.master_frs_code = l.frs_e_code
             matches == SelectSeq(right, SameCode)
             Joined(g) == [frs_e_code |-> l.frs_e_code, frs_name |-> l.frs_name, family_group |-> g]
         IN  (IF matches = <<>> THEN <<Joined("Unknown")>>
              ELSE [k \in 1..Len(matches) |-> Joined(matches[k].family_group)])
             \o MergeFamilyGroups(Tail(left), right)

\* the NFCC table cannot be read
Unreadable == [kind |-> "unreadable"]

\* lines 201-226: df_unique as saved
FrsFrame(df_all, nfcc) ==
    LET df_unique == DropDuplicateCodes(SortPairs(df_all), {})
    IN  IF nfcc.kind = "table"
        THEN MergeFamilyGroups(df_unique, Unique(nfcc.rows, {}))
        ELSE MergeFamilyGroups(df_unique, <<>>)

PairRows == [code : {SilverCodes[k] : k \in DOMAIN SilverCodes}, name : SilverNames]
NfccRows == [master_frs_code : {"E31000001", "E31000048"},
             family_group : {"Family Group 1", "Family Group 2"}]

InitFrs ==
    /\ LaterIdle
    /\ HdrIdle
    /\ FireIdle
    /\ FyIdle
    /\ MidIdle
    /\ GeoIdle
    /\ PopIdle
    /\ frs_silver \in SeqsUpTo(PairRows, MaxPairs)
    /\ frs_nfcc \in {Table(r) : r \in SeqsUpTo(NfccRows, MaxNfccRows)} \cup {NoTable, Unreadable}
    /\ all_pairs = <<>>
    /\ frs_dim = <<>>
    /\ frs_result = [status |-> "pending"]

\* line 199: no pair was harvested
DimFrsNoCodes ==
    /\ frs_result.status = "pending"
    /\ HarvestPairs(frs_silver) = <<>>
    /\ frs_result' = [status |-> "raised"]
    /\ UNCHANGED <<frs_silver, frs_nfcc, all_pairs, frs_dim>>
    /\ UNCHANGED <<hdrVars, fireVars, fyVars, midVars, geoVars, popVars, laterVars>>

\* lines 150-231: harvest, deduplicate, enrich, overwrite Dim_FRS
DimFrs ==
    /\ frs_result.status = "pending"
    /\ HarvestPairs(frs_silver) # <<>>
    /\ all_pairs' = HarvestPairs(frs_silver)
    /\ frs_dim' = FrsFrame(all_pairs', frs_nfcc)
    /\ frs_result' = [status |-> "written", warned |-> frs_nfcc = Unreadable]
    /\ UNCHANGED <<frs_silver, frs_nfcc>>
    /\ UNCHANGED <<hdrVars, fireVars, fyVars, midVars, geoVars, popVars, laterVars>>

NextFrs == DimFrs \/ DimFrsNoCodes

SpecFrs == InitFrs /\ [][NextFrs]_vars

\* C10: the Dim_FRS that dim_frs writes, after the family-group join, has at most
\* one row for any frs_e_code, whatever the Silver fire tables and the NFCC Silver
\* table hold.
C10_OneRowPerFrsCode ==
    frs_result.status = "written" =>
        \A j, k \in DOMAIN frs_dim : frs_dim[j].frs_e_code = frs_dim[k].frs_e_code => j = k

\* the harvested names of a code
NamesOf(code) == {all_pairs[k].frs_name : k \in {j \in DOMAIN all_pairs : all_pairs[j].frs_e_code = code}}

\* C11: every code among the harvested, remapped pairs has a row in Dim_FRS, and
\* the name of that row is one of the code's harvested names with no harvested
\* name of the same code strictly longer.
C11_LongestNameKept ==
    frs_result.status = "written" =>
        /\ \A k \in DOMAIN all_pairs : \E j \in DOMAIN frs_dim :
               frs_dim[j].frs_e_code = all_pairs[k].frs_e_code
        /\ \A j \in DOMAIN frs_dim :
               /\ frs_dim[j].frs_name \in NamesOf(frs_dim[j].frs_e_code)
               /\ \A n \in NamesOf(frs_dim[j].frs_e_code) :
                      NameLen[n] <= NameLen[frs_dim[j].frs_name]

\* the shorter name was harvested first, the longer one was kept
C11_Witness ==
    /\ frs_result.status = "written"
    /\ Len(all_pairs) = 2
    /\ all_pairs[1].frs_e_code = all_pairs[2].frs_e_code
    /\ NameLen[all_pairs[1].frs_name] < NameLen[all_pairs[2].frs_name]
    /\ \A j \in DOMAIN frs_dim : frs_dim[j].frs_name = all_pairs[2].frs_name

\* C12: every code the merger table maps to is a key of the master-name table, and
\* every harvested pair with a historical code is kept under its master code with
\* the master name of that code (its own name if the master table had none); no
\* harvested pair keeps a historical code or ends without a name.
C12_MappingClosure ==
    /\ \A c \in DOMAIN FRS_MAPPINGS : FRS_MAPPINGS[c] \in DOMAIN MASTER_FRS_NAMES
    /\ frs_result.status = "written" =>
           /\ \A k \in DOMAIN frs_silver :
                  frs_silver[k].code \in DOMAIN FRS_MAPPINGS =>
                      LET code == FRS_MAPPINGS[frs_silver[k].code]
                          name == IF code \in DOMAIN MASTER_FRS_NAMES
                                  THEN MASTER_FRS_NAMES[code] ELSE frs_silver[k].name
                      IN  \E j \in DOMAIN all_pairs :
                              all_pairs[j] = [frs_e_code |-> code, frs_name |-> name]
           /\ \A j \in DOMAIN all_pairs :
                  /\ all_pairs[j].frs_e_code \notin DOMAIN FRS_MAPPINGS
                  /\ all_pairs[j].frs_name \in DOMAIN NameLen
           /\ Len(all_pairs) = Cardinality({k \in DOMAIN frs_silver : IsFrsCode(frs_silver[k].code)})

\* a pair harvested under the historical code E31000017 carries the master code and name
C12_Witness ==
    /\ frs_result.status = "written"
    /\ Len(frs_silver) = 1
    /\ frs_silver[1] = [code |-> "E31000017", name |-> "Avon"]
    /\ all_pairs = <<[frs_e_code |-> "E31000048", frs_name |-> MASTER_FRS_NAMES["E31000048"]]>>

(***************************************************************************)
(* silver_layer.apply_drill_through_mapping                                *)
(***************************************************************************)
MaxTypeRows == 3

\* lines 118-125
type_mapping ==
    [k \in {<<"D", "w", "e", "l", "l", "i", "n", "g", "s">>,
            <<"D", "w", "e", "l", "l", "i", "n", "g">>,
            <<"D", "w", "e", "l", "l", "i", "n", "g", " ", "f", "i", "r", "e", "s">>,
            <<"C", "h", "i", "m", "n", "e", "y", " ", "F", "i", "r", "e", "s">>} |-> 10] @@
    [k \in {<<"O", "t", "h", "e", "r", " ", "B", "u", "i", "l", "d", "i", "n", "g", "s">>,
            <<"O", "t", "h", "e", "r", " ", "b", "u", "i", "l", "d", "i", "n", "g">>} |-> 20] @@
    [k \in {<<"R", "o", "a", "d", " ", "V", "e", "h", "i", "c", "l", "e", "s">>,
            <<"R", "o", "a", "d", " ", "V", "e", "h", "i", "c", "l", "e">>} |-> 30] @@
    [k \in {<<"S", "e", "c", "o", "n", "d", "a", "r", "y", " ", "F", "i", "r", "e", "s">>} |-> 31] @@
    [k \in {<<"O", "t", "h", "e", "r", " ", "O", "u", "t", "d", "o", "o", "r", "s">>,
            <<"O", "t", "h", "e", "r", " ", "O", "u", "t", "d", "o", "o", "r">>,
            <<"G", "r", "a", "s", "s", " ", "F", "i", "r", "e">>} |-> 32] @@
    [k \in {<<"D", "u", "e", " ", "t", "o", " ", "a", "p", "p", "a", "r", "a", "t", "u", "s">>,
            <<"G", "o", "o", "d", " ", "i", "n", "t", "e", "n", "t">>,
            <<"M", "a", "l", "i", "c", "i", "o", "u", "s">>,
            <<"F", "a", "l", "s", "e", " ", "A", "l", "a", "r", "m">>,
            <<"N", "o", "n", "-", "f", "i", "r", "e", " ", "f", "a", "l", "s", "e", " ", "a", "l", "a", "r", "m", "s">>} |-> 40] @@
    [k \in {<<"N", "o", "n", "-", "f", "i", "r", "e", " ", "i", "n", "c", "i", "d", "e", "n", "t", "s">>} |-> 50]

\* fillna(99): the id of a value that is no key
unmapped_id == 99

\* a frame without the column, and the column of a frame that has it
NoColumn == [kind |-> "none"]
Column(cells) == [kind |-> "column", cells |-> cells]

\* the cells of a fris_incident_type column: a key, a key with spaces around it,
\* a key in another case, a value that is no key, an absent cell
TypeCells ==
    {Text(<<"D", "w", "e", "l", "l", "i", "n", "g", "s">>),
     Text(<<" ", "G", "o", "o", "d", " ", "i", "n", "t", "e", "n", "t", " ">>),
     Text(<<"d", "w", "e", "l", "l", "i", "n", "g", "s">>),
     Text(<<"Z", "e", "p", "p", "e", "l", "i", "n">>),
     NoValue}

\* astype(str) of a cell
AsStr(cell) == IF cell.kind = "text" THEN cell.chars ELSE <<"N", "o", "n", "e">>

\* the mapping of a cell as it stands, without str.strip()
DrillThroughId_Untrimmed(cell) ==
    IF AsStr(cell) \in DOMAIN type_mapping THEN type_mapping[AsStr(cell)] ELSE unmapped_id

\* lines 126-127: clean_key.map(type_mapping).fillna(99).astype(int), for one cell
DrillThroughId(cell) ==
    LET clean_key == Strip(AsStr(cell), Whitespace)
    IN  IF clean_key \in DOMAIN type_mapping THEN type_mapping[clean_key] ELSE unmapped_id

\* lines 114-132: the ids of the column and what is logged
apply_drill_through_mapping(column) ==
    IF column = NoColumn THEN [status |-> "returned", drill_through_id |-> NoColumn, log |-> <<>>]
    ELSE LET ids == [k \in 1..Len(column.cells) |-> DrillThroughId(column.cells[k])]
             IsUnknown(k) == ids[k] = unmapped_id
             rows == SelectSeq([k \in 1..Len(ids) |-> k], IsUnknown)
             unknowns == Unique([k \in 1..Len(rows) |-> column.cells[rows[k]]], {})
         IN  [status |-> "returned",
              drill_through_id |-> Column(ids),
              log |-> IF Len(unknowns) > 0
                      THEN <<[level |-> "warning", what |-> "unmapped", item |-> unknowns]>>
                      ELSE <<>>]

InitDrillThrough ==
    /\ CoreIdle
    /\ FactIdle /\ FydIdle /\ FpIdle /\ ColIdle /\ DagIdle /\ LastIdle
    /\ dt_types \in {Column(c) : c \in SeqsUpTo(TypeCells, MaxTypeRows)} \cup {NoColumn}
    /\ dt_result = [status |-> "pending"]

\* fire_stats_silver line 157: df = apply_drill_through_mapping(df, context)
ApplyDrillThroughMapping ==
    /\ dt_result.status = "pending"
    /\ dt_result' = apply_drill_through_mapping(dt_types)
    /\ UNCHANGED <<dt_types, coreVars, factVars, fydVars, fpVars, colVars, dagVars, lastVars>>

NextDrillThrough == ApplyDrillThroughMapping

SpecDrillThrough == InitDrillThrough /\ [][NextDrillThrough]_vars

\* C15: apply_drill_through_mapping returns for every column; a value that is a
\* key of the category table once trimmed gets the id of that key; any other
\* value, an absent one included, gets 99, and a warning naming it is logged.
C15_UnmappedIsSentinel ==
    /\ dt_result.status \in {"pending", "returned"}
    /\ (dt_result.status = "returned" /\ dt_types # NoColumn) =>
           /\ Len(dt_result.drill_through_id.cells) = Len(dt_types.cells)
           /\ \A k \in DOMAIN dt_types.cells :
                  LET cell == dt_types.cells[k]
                      key == Strip(AsStr(cell), Whitespace)
                      id == dt_result.drill_through_id.cells[k]
                  IN  IF key \in DOMAIN type_mapping
                      THEN id = type_mapping[key]
                      ELSE /\ id = 99
                           /\ \E e \in DOMAIN dt_result.log :
                                  /\ dt_result.log[e].level = "warning"
                                  /\ \E u \in DOMAIN dt_result.log[e].item :
                                         dt_result.log[e].item[u] = cell

\* a key with spaces around it, an absent value and a value that is no key
C15_Witness ==
    /\ dt_result.status = "returned"
    /\ dt_types # NoColumn
    /\ Len(dt_types.cells) = 3
    /\ dt_types.cells[1] = Text(<<" ", "G", "o", "o", "d", " ", "i", "n", "t", "e", "n", "t", " ">>)
    /\ dt_types.cells[2] = NoValue
    /\ dt_types.cells[3] = Text(<<"Z", "e", "p", "p", "e", "l", "i", "n">>)
    /\ dt_result.drill_through_id.cells = <<40, 99, 99>>
    /\ Len(dt_result.log) = 1

(***************************************************************************)
(* silver_layer.fire_stats_silver and gold_layer.create_fire_facts         *)
(***************************************************************************)
MaxDatasets == 2

\* the folder names under Bronze GovUK_FireStats
DatasetNames ==
    {<<"d", "w", "e", "l", "l", "i", "n", "g", "-", "f", "i", "r", "e", "s">>,
     <<"d", "w", "e", "l", "l", "i", "n", "g", "_", "f", "i", "r", "e", "s">>,
     <<"f", "i", "r", "e", "_", "s", "t", "a", "t", "i", "o", "n", "s">>,
     <<"_", "s", "t", "a", "g", "i", "n", "g">>}

LowerLetters == <<"a", "b", "c", "d", "e", "f", "g", "h", "i", "j", "k", "l", "m",
                  "n", "o", "p", "q", "r", "s", "t", "u", "v", "w", "x", "y", "z">>
UpperLetters == <<"A", "B", "C", "D", "E", "F", "G", "H", "I", "J", "K", "L", "M",
                  "N", "O", "P", "Q", "R", "S", "T", "U", "V", "W", "X", "Y", "Z">>

IsLetter(ch) == \E k \in 1..26 : LowerLetters[k] = ch \/ UpperLetters[k] = ch

ToUpper(ch) == IF \E k \in 1..26 : LowerLetters[k] = ch
               THEN UpperLetters[CHOOSE k \in 1..26 : LowerLetters[k] = ch] ELSE ch

ToLower(ch) == IF \E k \in 1..26 : UpperLetters[k] = ch
               THEN LowerLetters[CHOOSE k \in 1..26 : UpperLetters[k] = ch] ELSE ch

\* str.replace(old, new) for one-character strings
ReplaceChar(s, old, new) == [k \in 1..Len(s) |-> IF s[k] = old THEN new ELSE s[k]]

RECURSIVE Title(_, _)
\* str.title(): the first letter of every run of letters upper case, the others lower
Title(s, inWord) ==
    IF s = <<>> THEN <<>>
    ELSE <<IF inWord THEN ToLower(Head(s)) ELSE ToUpper(Head(s))>>
         \o Title(Tail(s), IsLetter(Head(s)))

NotSpace(ch) == ch # " "

\* line 350: "Fact_" + dataset_name.replace("-", " ").replace("_", " ").title().replace(" ", "")
fact_name(dataset_name) ==
    <<"F", "a", "c", "t", "_">>
    \o SelectSeq(Title(ReplaceChar(ReplaceChar(dataset_name, "-", " "), "_", " "), FALSE), NotSpace)

\* lines 161-167, in the order of the dict
fallback_map ==
    <<[key |-> <<"d", "w", "e", "l", "l", "i", "n", "g">>, val |-> 10],
      [key |-> <<"o", "t", "h", "e", "r", "_", "b", "u", "i", "l", "d", "i", "n", "g">>, val |-> 20],
      [key |-> <<"r", "o", "a", "d", "_", "v", "e", "h", "i", "c", "l", "e">>, val |-> 30],
      [key |-> <<"o", "u", "t", "d", "o", "o", "r">>, val |-> 31],
      [key |-> <<"s", "e", "c", "o", "n", "d", "a", "r", "y">>, val |-> 31],
      [key |-> <<"f", "a", "l", "s", "e", "_", "a", "l", "a", "r", "m">>, val |-> 40],
      [key |-> <<"r", "o", "a", "d", "_", "t", "r", "a", "f", "f", "i", "c">>, val |-> 50],
      [key |-> <<"m", "e", "d", "i", "c", "a", "l">>, val |-> 50],
      [key |-> <<"f", "l", "o", "o", "d">>, val |-> 50],
      [key |-> <<"w", "a", "t", "e", "r">>, val |-> 50],
      [key |-> <<"a", "n", "i", "m", "a", "l">>, val |-> 50],
      [key |-> <<"c", "o", "l", "l", "a", "b", "o", "r", "a", "t", "i", "n", "g">>, val |-> 50],
      [key |-> <<"b", "a", "r", "i", "a", "t", "r", "i", "c">>, val |-> 50],
      [key |-> <<"o", "t", "h", "e", "r", "_", "n", "o", "n", "_", "f", "i", "r", "e">>, val |-> 50]>>

\* line 160: dataset_name.lower().replace('-', '_').replace(' ', '_')
NormalizedName(dataset_name) ==
    ReplaceChar(ReplaceChar([k \in 1..Len(dataset_name) |-> ToLower(dataset_name[k])], "-", "_"), " ", "_")

\* lines 168-172: the value of the first key found in the name, 99 if none is
FoundId(dataset_name) ==
    LET hits == {k \in DOMAIN fallback_map : Contains(NormalizedName(dataset_name), fallback_map[k].key)}
    IN  IF hits = {} THEN unmapped_id
        ELSE fallback_map[CHOOSE k \in hits : \A j \in hits : k <= j].val

\* a Bronze dataset: where its financial year comes from ("column": a financial_year
\* column, "dates": a date column with parseable dates, "none": neither) and its
\* fris_incident_type column; one row
Datasets ==
    [name : DatasetNames, fy : {"column", "dates", "none"},
     types : {NoColumn} \cup {Column(<<c>>) : c \in {Text(<<"D", "w", "e", "l", "l", "i", "n", "g", "s">>), NoValue}}]

\* folder listings: no name twice
Listings(n) == {s \in SeqsUpTo(Datasets, n) : \A j, k \in DOMAIN s : s[j].name = s[k].name => j = k}

Skipped(name) == name # <<>> /\ Head(name) = "_"

\* lines 153-154: add_financial_year raises on the dates of the dataset
FinancialYearRaises(ds) ==
    ds.fy = "dates" /\ add_financial_year("incident_date", <<Date(2024, 4)>>).status = "raised"

\* lines 152-199: the Silver frame of a dataset, as far as the ids and the year go
SilverFrame(ds) ==
    LET mapped == apply_drill_through_mapping(ds.types)
        ids == IF ds.types # NoColumn THEN mapped.drill_through_id.cells
               ELSE IF FoundId(ds.name) # unmapped_id THEN <<FoundId(ds.name)>>
               ELSE <<>>
    IN  [kind |-> "table",
         cols |-> (IF ds.fy = "column" THEN {"financial_year"} ELSE {})
                  \cup (IF ds.types # NoColumn THEN {"fris_incident_type"} ELSE {})
                  \cup (IF ids # <<>> THEN {"drill_through_id"} ELSE {}),
         rows |-> <<[drill_through_id |-> IF ids # <<>> THEN Num(ids[1]) ELSE NoValue]>>]

LogItem(level, what, name) == [level |-> level, what |-> what, item |-> [table |-> name]]

RECURSIVE SilverRun(_, _, _)
\* lines 146-206: the folders in order; [silver, log] after the last
SilverRun(folders, silver, lg) ==
    IF folders = <<>> THEN [silver |-> silver, log |-> lg]
    ELSE LET ds == Head(folders)
         IN  IF Skipped(ds.name) THEN SilverRun(Tail(folders), silver, lg)
             ELSE IF FinancialYearRaises(ds)
             THEN SilverRun(Tail(folders), silver, Append(lg, LogItem("error", "failed", ds.name)))
             ELSE SilverRun(Tail(folders), [silver EXCEPT ![ds.name] = SilverFrame(ds)],
                            lg \o [k \in 1..Len(apply_drill_through_mapping(ds.types).log) |->
                                      LogItem("warning", "unmapped", ds.name)])

SKIP_FY_CHECK == {<<"u", "n", "c", "a", "t", "e", "g", "o", "r", "i", "z", "e", "d", "_",
                    "f", "i", "r", "e", "_", "d", "a", "t", "a">>,
                  <<"f", "i", "r", "e", "_", "s", "t", "a", "t", "i", "o", "n", "s">>}

\* lines 336-341 without the default of line 341
FactFrame_NoDefault(dataset_name, df) ==
    [kind |-> "table",
     cols |-> df.cols \cup {"incident_dataset_key"},
     rows |-> [k \in 1..Len(df.rows) |->
                  [incident_dataset_key |-> dataset_name,
                   drill_through_id |-> df.rows[k].drill_through_id]]]

\* lines 336-341: the fact frame of a Silver table
FactFrame(dataset_name, df) ==
    [kind |-> "table",
     cols |-> df.cols \cup {"incident_dataset_key", "drill_through_id"},
     rows |-> [k \in 1..Len(df.rows) |->
                  [incident_dataset_key |-> dataset_name,
                   drill_through_id |-> IF "drill_through_id" \in df.cols
                                        THEN df.rows[k].drill_through_id ELSE Num(unmapped_id)]]]

\* lines 339-344: the warnings of one dataset
FactWarnings(dataset_name, df) ==
    (IF "drill_through_id" \notin df.cols
     THEN <<LogItem("warning", "missing drill_through_id", dataset_name)>> ELSE <<>>)
    \o (IF dataset_name \notin SKIP_FY_CHECK /\ "financial_year" \notin df.cols
        THEN <<LogItem("warning", "missing financial_year", dataset_name)>> ELSE <<>>)

RECURSIVE FactsRun(_, _, _, _)
\* lines 331-356: the Silver folders in order; [gold, log] after the last
FactsRun(order, silver, gold, lg) ==
    IF order = <<>> THEN [gold |-> gold, log |-> lg]
    ELSE LET name == Head(order)
         IN  IF Skipped(name) THEN FactsRun(Tail(order), silver, gold, lg)
             ELSE FactsRun(Tail(order), silver,
                           [gold EXCEPT ![fact_name(name)] = FactFrame(name, silver[name])],
                           lg \o FactWarnings(name, silver[name]))

FactNames == {fact_name(n) : n \in DatasetNames}

\* the names that have a Silver table
SilverDatasets == {n \in DatasetNames : ff_silver[n] # NoTable}

\* the orders in which iterdir() may list a set of folders
Orders(S) == {s \in SeqsUpTo(S, Cardinality(S)) :
                 Len(s) = Cardinality(S) /\ \A j, k \in DOMAIN s : s[j] = s[k] => j = k}

InitFacts ==
    /\ CoreIdle
    /\ DrillIdle /\ FydIdle /\ FpIdle /\ ColIdle /\ DagIdle /\ LastIdle
    /\ ff_bronze \in Listings(MaxDatasets)
    /\ ff_silver = [n \in DatasetNames |-> NoTable]
    /\ ff_gold = [f \in FactNames |-> NoTable]
    /\ ff_log = <<>>
    /\ ff_pc = "fire_stats_silver"

\* silver_layer lines 143-208
FireStatsSilver ==
    /\ ff_pc = "fire_stats_silver"
    /\ LET out == SilverRun(ff_bronze, ff_silver, ff_log)
       IN  ff_silver' = out.silver /\ ff_log' = out.log
    /\ ff_pc' = "create_fire_facts"
    /\ UNCHANGED <<ff_bronze, ff_gold, coreVars, drillVars, fydVars, fpVars, colVars, dagVars, lastVars>>

\* gold_layer lines 326-358, the Silver folders listed in any order
CreateFireFacts ==
    /\ ff_pc = "create_fire_facts"
    /\ \E order \in Orders(SilverDatasets) :
           LET out == FactsRun(order, ff_silver, ff_gold, ff_log)
           IN  ff_gold' = out.gold /\ ff_log' = out.log
    /\ ff_pc' = "done"
    /\ UNCHANGED <<ff_bronze, ff_silver, coreVars, drillVars, fydVars, fpVars, colVars, dagVars, lastVars>>

NextFacts == FireStatsSilver \/ CreateFireFacts

SpecFacts == InitFacts /\ [][NextFacts]_vars

\* C13: create_fire_facts writes one fact table per Silver dataset: after the run
\* every Silver dataset has its own fact table, which holds that dataset's rows,
\* and no two distinct dataset names are written to the same fact table
C13_OneFactTablePerDataset ==
    ff_pc = "done" =>
        /\ \A n \in SilverDatasets :
              /\ ff_gold[fact_name(n)] # NoTable
              /\ \A k \in 1..Len(ff_gold[fact_name(n)].rows) :
                    ff_gold[fact_name(n)].rows[k].incident_dataset_key = n
        /\ \A n1, n2 \in SilverDatasets : n1 # n2 => fact_name(n1) # fact_name(n2)

\* the dataset (one of them, lines 331-353 keep the last) a fact table was written from
WrittenFrom(f) == {n \in SilverDatasets : fact_name(n) = f
                       /\ \A k \in 1..Len(ff_gold[f].rows) : ff_gold[f].rows[k].incident_dataset_key = n}

\* C14: every fact table written has a drill_through_id on every row and the name
\* of a dataset it was written from as lineage key on every row; a dataset whose
\* Silver table has no drill_through_id column gets 99 on every row and a warning
C14_FactsCarryIdAndLineage ==
    ff_pc = "done" =>
        /\ \A f \in FactNames : ff_gold[f] # NoTable =>
              /\ {"drill_through_id", "incident_dataset_key"} \subseteq ff_gold[f].cols
              /\ \A k \in 1..Len(ff_gold[f].rows) : ff_gold[f].rows[k].drill_through_id.kind = "num"
              /\ WrittenFrom(f) # {}
              /\ \A n \in WrittenFrom(f) : "drill_through_id" \notin ff_silver[n].cols =>
                    \A k \in 1..Len(ff_gold[f].rows) :
                        ff_gold[f].rows[k].drill_through_id = Num(unmapped_id)
        /\ \A n \in SilverDatasets : "drill_through_id" \notin ff_silver[n].cols =>
              \E k \in 1..Len(ff_log) :
                  ff_log[k] = LogItem("warning", "missing drill_through_id", n)
        /\ \A j \in 1..Len(ff_bronze) : ff_bronze[j].name \in SilverDatasets =>
              ("drill_through_id" \notin ff_silver[ff_bronze[j].name].cols
                  <=> (ff_bronze[j].types = NoColumn /\ FoundId(ff_bronze[j].name) = unmapped_id))

\* a run in which a Silver table without drill_through_id became a fact table
C14_Witness ==
    /\ ff_pc = "done"
    /\ \E n \in SilverDatasets :
          /\ "drill_through_id" \notin ff_silver[n].cols
          /\ ff_gold[fact_name(n)] # NoTable
          /\ ff_gold[fact_name(n)].rows[1] = [incident_dataset_key |-> n, drill_through_id |-> Num(unmapped_id)]
    /\ \E n \in SilverDatasets : "drill_through_id" \in ff_silver[n].cols

(***************************************************************************)
(* gold_layer.dim_financial_year                                           *)
(***************************************************************************)
MaxYearFolders == 2
MaxYearValues == 2

default_max_year == 2010

\* the financial_year cells of the Silver tables: text (line 198 of silver_layer
\* makes every cell of the column text) or no value
YearStrings == {<<"2", "0", "1", "9", "/", "2", "0">>,
                <<"2", "0", "2", "1", "/", "2", "2">>,
                <<"2", "0", "1", "9">>,
                <<"u", "n", "k", "n", "o", "w", "n">>,
                <<"n", "/", "a">>}

YearCells == {Text(s) : s \in YearStrings} \cup {NoValue}

\* a Silver folder: a table without the column, a table with the column, or a
\* folder DeltaTable() cannot read
YearFolders ==
    {Unreadable, [kind |-> "table", has_fy |-> FALSE, financial_year |-> {}]}
    \cup {[kind |-> "table", has_fy |-> TRUE, financial_year |-> c] :
             c \in {c \in SUBSET YearCells : Cardinality(c) <= MaxYearValues}}

\* the characters of the year strings, in code point order
CodePoints == <<"/", "0", "1", "2", "3", "4", "5", "6", "7", "8", "9",
                "a", "k", "n", "o", "u", "w">>

Ord(ch) == CHOOSE k \in DOMAIN CodePoints : CodePoints[k] = ch

RECURSIVE StrLess(_, _)
\* a < b for two str
StrLess(a, b) ==
    IF b = <<>> THEN FALSE
    ELSE IF a = <<>> THEN TRUE
    ELSE IF Head(a) # Head(b) THEN Ord(Head(a)) < Ord(Head(b))
    ELSE StrLess(Tail(a), Tail(b))

RECURSIVE Sorted(_)
\* sorted(list(years))
Sorted(S) ==
    IF S = {} THEN <<>>
    ELSE LET least == CHOOSE s \in S : \A o \in S \ {s} : StrLess(s, o)
         IN  <<least>> \o Sorted(S \ {least})

\* y[:4] and str.slice(0, 4)
FirstFour(s) == SubSeq(s, 1, IF Len(s) < 4 THEN Len(s) ELSE 4)

\* int(x) accepts x, for text of the characters above
IntParses(s) == s # <<>> /\ \A k \in 1..Len(s) : IsDigit(s[k])

RECURSIVE StrOfInt(_)
\* str(n), n >= 0
StrOfInt(n) == IF n < 10 THEN <<DigitChars[n + 1]>>
               ELSE StrOfInt(n \div 10) \o <<DigitChars[(n % 10) + 1]>>

\* str(n)[-2:]
LastTwoChars(s) == SubSeq(s, IF Len(s) < 2 THEN 1 ELSE Len(s) - 1, Len(s))

\* f"{next_start}/{str(next_end)[-2:]}"
PeriodLabel(next_start) == StrOfInt(next_start) \o <<"/">> \o LastTwoChars(StrOfInt(next_start + 1))

\* line 249: df['financial_year'].dropna().unique(), over the folders that can be read
YearsOf(folders) ==
    UNION {{c.chars : c \in folders[k].financial_year \ {NoValue}} :
              k \in {k \in DOMAIN folders : folders[k] # Unreadable /\ folders[k].has_fy}}

\* line 252: isinstance(y, str) and len(y) == 7
ValidYears(years) == {y \in years : Len(y) = 7}

Max(S) == CHOOSE x \in S : \A y \in S : y <= x

\* lines 243-262: the frame, or the exception that ends the asset
dim_financial_year(folders) ==
    LET years == YearsOf(folders)
        valid_years == ValidYears(years)
    IN  IF \E y \in valid_years : ~IntParses(FirstFour(y))
        THEN [status |-> "raised", line |-> 253, rows |-> <<>>]
        ELSE LET current_max_year == IF valid_years # {}
                                     THEN Max({IntOf(FirstFour(y)) : y \in valid_years})
                                     ELSE default_max_year
                 year_list == Sorted(years \cup {PeriodLabel(current_max_year + i) : i \in 1..2})
             IN  IF \E k \in DOMAIN year_list : ~IntParses(FirstFour(year_list[k]))
                 THEN [status |-> "raised", line |-> 262, rows |-> <<>>]
                 ELSE [status |-> "written", line |-> 267,
                       rows |-> [k \in DOMAIN year_list |->
                                    [financial_year |-> year_list[k],
                                     year_sort |-> IntOf(FirstFour(year_list[k]))]]]

InitFinancialYearDim ==
    /\ CoreIdle
    /\ DrillIdle /\ FactIdle /\ FpIdle /\ ColIdle /\ DagIdle /\ LastIdle
    /\ fyd_silver \in SeqsUpTo(YearFolders, MaxYearFolders)
    /\ fyd_dim = <<>>
    /\ fyd_log = <<>>
    /\ fyd_result = [status |-> "pending"]

\* lines 242-267, the frame saved; line 250 catches a folder that cannot be read and
\* logs nothing
DimFinancialYear ==
    /\ fyd_result.status = "pending"
    /\ dim_financial_year(fyd_silver).status = "written"
    /\ fyd_dim' = dim_financial_year(fyd_silver).rows
    /\ \E vacuumed \in BOOLEAN : fyd_log' = fyd_log \o SaveLog("Dim_FinancialYear", vacuumed)
    /\ fyd_result' = [status |-> "written"]
    /\ UNCHANGED <<fyd_silver, coreVars, drillVars, factVars, fpVars, colVars, dagVars, lastVars>>

\* lines 253 and 262: int() raises, nothing is saved
DimFinancialYearRaises ==
    /\ fyd_result.status = "pending"
    /\ dim_financial_year(fyd_silver).status = "raised"
    /\ fyd_result' = [status |-> "raised"]
    /\ UNCHANGED <<fyd_silver, fyd_dim, fyd_log, coreVars, drillVars, factVars, fpVars, colVars, dagVars, lastVars>>

NextFinancialYearDim == DimFinancialYear \/ DimFinancialYearRaises

SpecFinancialYearDim == InitFinancialYearDim /\ [][NextFinancialYearDim]_vars

\* the shape 'YYYY/YY'
IsYearShape(s) ==
    /\ Len(s) = 7
    /\ s[5] = "/"
    /\ \A k \in {1, 2, 3, 4, 6, 7} : IsDigit(s[k])

\* C16: the time dimension written holds exactly the financial-year strings of the
\* shape 'YYYY/YY' met in the Silver tables and the two periods after the largest
\* start year among them, in ascending order, each with its start year as sort
\* key; no string of another shape is written
C16_TimeDimension ==
    fyd_result.status = "written" =>
        LET shaped == {y \in YearsOf(fyd_silver) : IsYearShape(y)}
            top == IF shaped # {} THEN Max({IntOf(FirstFour(y)) : y \in shaped}) ELSE default_max_year
        IN  /\ {fyd_dim[k].financial_year : k \in DOMAIN fyd_dim}
                  = shaped \cup {PeriodLabel(top + 1), PeriodLabel(top + 2)}
            /\ \A k \in DOMAIN fyd_dim :
                  /\ IsYearShape(fyd_dim[k].financial_year)
                  /\ fyd_dim[k].year_sort = IntOf(FirstFour(fyd_dim[k].financial_year))
            /\ \A j, k \in DOMAIN fyd_dim :
                  j < k => StrLess(fyd_dim[j].financial_year, fyd_dim[k].financial_year)

\* C19: no error is swallowed without a log entry: once the asset has ended, the
\* log holds an entry for every Silver folder whose read raised and was caught
C19_NoSilentSwallow ==
    fyd_result.status # "pending" =>
        \A k \in DOMAIN fyd_silver : fyd_silver[k] = Unreadable =>
            \E j \in DOMAIN fyd_log :
                fyd_log[j].level \in {"warning", "error"} /\ fyd_log[j].item = [folder |-> k]

(***************************************************************************)
(* gold_layer.fact_population                                              *)
(***************************************************************************)
\* Bronze population tables with the year column 2020, no key twice, no blank cell
KeyedPopTables ==
    {[kind |-> "table", year_cols |-> {2020}, rows |-> r] :
        r \in {s \in SeqsUpTo(PopRows({2020}), Cardinality(LsoaCodes)) :
                  /\ \A j, k \in DOMAIN s : s[j].lsoa_code = s[k].lsoa_code => j = k
                  /\ \A k \in DOMAIN s : s[k].cells[2020] # <<>>}}

\* the Dim_Geography tables dim_geography writes
GeographyTables ==
    {GeographyFrame(left, right) :
        left \in SeqsUpTo(LsoaLadRows, MaxLsoaRows), right \in SeqsUpTo(LadFraRows, MaxFraRows)}

\* lines 110-113: df_pop with its financial_year column
WithFinancialYear(rows) ==
    [k \in 1..Len(rows) |->
        [lsoa_code |-> rows[k].lsoa_code, year |-> rows[k].year,
         population |-> rows[k].population, financial_year |-> PeriodLabel(rows[k].year)]]

RECURSIVE MergeInner(_, _)
\* line 115: pd.merge(df_pop, df_geo, on="lsoa_code", how="inner"), left order kept
MergeInner(left, right) ==
    IF left = <<>> THEN <<>>
    ELSE LET l == Head(left)
             SameLsoa(r) == r.lsoa_code = l.lsoa_code
             matches == SelectSeq(right, SameLsoa)
         IN  [k \in 1..Len(matches) |->
                 [lsoa_code |-> l.lsoa_code, year |-> l.year, population |-> l.population,
                  financial_year |-> l.financial_year,
                  lad_code |-> matches[k].lad_code, frs_code |-> matches[k].frs_code]]
             \o MergeInner(Tail(left), right)

RECURSIVE SumPopulation(_)
SumPopulation(rows) ==
    IF rows = <<>> THEN 0 ELSE Head(rows).population + SumPopulation(Tail(rows))

\* groupby(['financial_year', col])['population'].sum(): the sum of every group
\* whose key has no null, by key
GroupSum(rows, col) ==
    LET keys == {<<rows[k].financial_year, rows[k][col]>> :
                    k \in {j \in DOMAIN rows : rows[j][col] # NullCell}}
    IN  [g \in keys |->
            LET InGroup(r) == <<r.financial_year, r[col]>> = g
            IN  SumPopulation(SelectSeq(rows, InGroup))]

InitFactPopulation ==
    /\ HdrIdle /\ FireIdle /\ FyIdle /\ MidIdle /\ FrsIdle
    /\ DrillIdle /\ FactIdle /\ FydIdle /\ ColIdle /\ DagIdle /\ LastIdle
    /\ geo_lsoa_lad = [kind |-> "idle"]
    /\ geo_lad_fra = [kind |-> "idle"]
    /\ pop_bronze = [kind |-> "idle"]
    /\ \/ pop_result = [status |-> "written"] /\ pop_long \in {PopulationFrame(b) : b \in KeyedPopTables}
       \/ pop_result = [status |-> "raised"] /\ pop_long = <<>>
    /\ \/ geo_result = [status |-> "written"] /\ geo_dim \in GeographyTables
       \/ geo_result = [status |-> "raised"] /\ geo_dim = <<>>
    /\ fp_lsoa = <<>>
    /\ fp_result = [status |-> "pending"]

\* lines 107-108: one of the two tables was never written
FactPopulationMissing ==
    /\ fp_result.status = "pending"
    /\ pop_result.status # "written" \/ geo_result.status # "written"
    /\ fp_result' = [status |-> "raised"]
    /\ UNCHANGED <<fp_lsoa, hdrVars, fireVars, fyVars, midVars, geoVars, popVars, frsVars,
                   drillVars, factVars, fydVars, colVars, dagVars, lastVars>>

\* lines 107-138: Fact_Population_LSOA and the rollups (the rollup by MSOA groups
\* columns the geography frames here do not carry)
FactPopulation ==
    /\ fp_result.status = "pending"
    /\ pop_result.status = "written" /\ geo_result.status = "written"
    /\ LET df_pop == WithFinancialYear(pop_long)
           df_merged == MergeInner(df_pop, geo_dim)
       IN  /\ fp_lsoa' = df_pop
           /\ fp_result' = [status |-> "written",
                            lad |-> GroupSum(df_merged, "lad_code"),
                            frs |-> GroupSum(df_merged, "frs_code")]
    /\ UNCHANGED <<hdrVars, fireVars, fyVars, midVars, geoVars, popVars, frsVars,
                   drillVars, factVars, fydVars, colVars, dagVars, lastVars>>

NextFactPopulation == FactPopulation \/ FactPopulationMissing

SpecFactPopulation == InitFactPopulation /\ [][NextFactPopulation]_vars

\* C17: Fact_Population_LSOA is the population series joined to Dim_Geography on
\* lsoa_code: every row's lsoa_code is in Dim_Geography and the row carries the
\* geography attributes of that key, and every population row whose key is in
\* Dim_Geography is in the fact
C17_LsoaFactIsJoined ==
    fp_result.status = "written" =>
        /\ \A k \in DOMAIN fp_lsoa :
              \E g \in DOMAIN geo_dim :
                  /\ geo_dim[g].lsoa_code = fp_lsoa[k].lsoa_code
                  /\ {"lad_code", "frs_code"} \subseteq DOMAIN fp_lsoa[k]
                  /\ fp_lsoa[k].lad_code = geo_dim[g].lad_code
                  /\ fp_lsoa[k].frs_code = geo_dim[g].frs_code
        /\ \A j \in DOMAIN pop_long :
              (\E g \in DOMAIN geo_dim : geo_dim[g].lsoa_code = pop_long[j].lsoa_code) =>
                  \E k \in DOMAIN fp_lsoa :
                      /\ fp_lsoa[k].lsoa_code = pop_long[j].lsoa_code
                      /\ fp_lsoa[k].year = pop_long[j].year
                      /\ fp_lsoa[k].population = pop_long[j].population

(***************************************************************************)
(* bronze_layer.nfcc_family_group_bronze: the column names                 *)
(***************************************************************************)
MaxColumns == 3

\* the headers pd.read_excel may hand over (it never hands over one text twice)
RawHeaders == {<<"x">>, <<"X">>, <<"x", " ">>, <<"x", ".", "1">>, <<"x", "_", "1">>, <<"y">>}

\* characters matched by [a-z0-9_]
IsNameChar(ch) == IsDigit(ch) \/ ch = "_" \/ \E k \in 1..26 : LowerLetters[k] = ch

RECURSIVE SkipOther(_)
SkipOther(s) == IF s # <<>> /\ ~IsNameChar(Head(s)) THEN SkipOther(Tail(s)) ELSE s

RECURSIVE ReplaceOther(_)
\* .str.replace(r'[^a-z0-9_]+', '_', regex=True)
ReplaceOther(s) ==
    IF s = <<>> THEN <<>>
    ELSE IF IsNameChar(Head(s)) THEN <<Head(s)>> \o ReplaceOther(Tail(s))
    ELSE <<"_">> \o ReplaceOther(SkipOther(Tail(s)))

\* line 229, for one header
NormalizeColumn(col) ==
    LET stripped == Strip(col, Whitespace)
    IN  ReplaceOther([k \in 1..Len(stripped) |-> ToLower(stripped[k])])

RECURSIVE DedupColumns_CountFromOne(_, _)
\* lines 233-243 with seen_columns[col] = 1 at the first occurrence
DedupColumns_CountFromOne(cols, seen_columns) ==
    IF cols = <<>> THEN <<>>
    ELSE LET col == Head(cols)
         IN  IF col \in DOMAIN seen_columns
             THEN <<col \o <<"_">> \o StrOfInt(seen_columns[col] + 1)>>
                  \o DedupColumns_CountFromOne(Tail(cols), [seen_columns EXCEPT ![col] = @ + 1])
             ELSE <<col>> \o DedupColumns_CountFromOne(Tail(cols), seen_columns @@ (col :> 1))

RECURSIVE DedupColumns(_, _)
\* lines 233-243: new_columns for the columns from here on, seen_columns as it is
DedupColumns(cols, seen_columns) ==
    IF cols = <<>> THEN <<>>
    ELSE LET col == Head(cols)
         IN  IF col \in DOMAIN seen_columns
             THEN <<col \o <<"_">> \o StrOfInt(seen_columns[col] + 1)>>
                  \o DedupColumns(Tail(cols), [seen_columns EXCEPT ![col] = @ + 1])
             ELSE <<col>> \o DedupColumns(Tail(cols), seen_columns @@ (col :> 0))

InitColumns ==
    /\ CoreIdle
    /\ DrillIdle /\ FactIdle /\ FydIdle /\ FpIdle /\ DagIdle /\ LastIdle
    /\ df_columns \in {s \in SeqsUpTo(RawHeaders, MaxColumns) :
                          s # <<>> /\ \A j, k \in DOMAIN s : s[j] = s[k] => j = k}
    /\ new_columns = <<>>

\* lines 229-245: df.columns normalized, then de-duplicated
DeduplicateColumns ==
    /\ new_columns = <<>>
    /\ df_columns' = [k \in 1..Len(df_columns) |-> NormalizeColumn(df_columns[k])]
    /\ new_columns' = DedupColumns(df_columns', <<>>)
    /\ UNCHANGED <<coreVars, drillVars, factVars, fydVars, fpVars, dagVars, lastVars>>

NextColumns == DeduplicateColumns

SpecColumns == InitColumns /\ [][NextColumns]_vars

\* the positions before k that hold the name of position k
EarlierSame(k) == {j \in 1..(k - 1) : df_columns[j] = df_columns[k]}

\* C18: the first occurrence of a name keeps the name, its k-th later occurrence
\* becomes name_k, in column order; a name that occurs once is unchanged
C18_SuffixPerLaterOccurrence ==
    new_columns # <<>> =>
        /\ Len(new_columns) = Len(df_columns)
        /\ \A k \in DOMAIN df_columns :
              new_columns[k] = IF EarlierSame(k) = {} THEN df_columns[k]
                               ELSE df_columns[k] \o <<"_">> \o StrOfInt(Cardinality(EarlierSame(k)))

\* [x, x, x] became [x, x_1, x_2]
C18_Witness ==
    /\ df_columns = <<<<"x">>, <<"x">>, <<"x">>>>
    /\ new_columns = <<<<"x">>, <<"x", "_", "1">>, <<"x", "_", "2">>>>

(***************************************************************************)
(* definitions.py: one run of all assets                                   *)
(***************************************************************************)
Assets ==
    {"fire_stats_bronze_all", "nfcc_family_group_bronze", "ons_data_bronze",
     "fire_stats_silver", "population_silver", "geography_lookups_silver",
     "nfcc_family_groups_silver",
     "dim_geography", "fact_population", "dim_frs", "dim_financial_year",
     "dim_incident_type", "create_fire_facts", "fact_frs_risk_profiles"}

\* the deps of the @asset decorators, with deps of fact_population cut to population_silver
Deps_WithoutDimGeography ==
    [a \in Assets |->
        CASE a = "fire_stats_silver" -> {"fire_stats_bronze_all"}
          [] a = "population_silver" -> {"ons_data_bronze"}
          [] a = "geography_lookups_silver" -> {"ons_data_bronze"}
          [] a = "nfcc_family_groups_silver" -> {"nfcc_family_group_bronze"}
          [] a = "dim_geography" -> {"geography_lookups_silver"}
          [] a = "fact_population" -> {"population_silver"}
          [] a = "dim_frs" -> {"fire_stats_silver", "nfcc_family_groups_silver"}
          [] a = "dim_financial_year" -> {"fire_stats_silver"}
          [] a = "dim_incident_type" -> {"fire_stats_silver"}
          [] a = "create_fire_facts" -> {"fire_stats_silver"}
          [] a = "fact_frs_risk_profiles" -> {"nfcc_family_groups_silver"}
          [] OTHER -> {}]

\* the deps of the @asset decorators
Deps ==
    [a \in Assets |->
        CASE a = "fire_stats_silver" -> {"fire_stats_bronze_all"}
          [] a = "population_silver" -> {"ons_data_bronze"}
          [] a = "geography_lookups_silver" -> {"ons_data_bronze"}
          [] a = "nfcc_family_groups_silver" -> {"nfcc_family_group_bronze"}
          [] a = "dim_geography" -> {"geography_lookups_silver"}
          [] a = "fact_population" -> {"population_silver", "dim_geography"}
          [] a = "dim_frs" -> {"fire_stats_silver", "nfcc_family_groups_silver"}
          [] a = "dim_financial_year" -> {"fire_stats_silver"}
          [] a = "dim_incident_type" -> {"fire_stats_silver"}
          [] a = "create_fire_facts" -> {"fire_stats_silver"}
          [] a = "fact_frs_risk_profiles" -> {"nfcc_family_groups_silver"}
          [] OTHER -> {}]

\* the tables (paths under the lake root) an asset reads
Reads ==
    [a \in Assets |->
        CASE a = "fire_stats_silver" -> {"Bronze/GovUK_FireStats"}
          [] a = "population_silver" -> {"Bronze/ONS_Data/population_estimates"}
          [] a = "geography_lookups_silver" ->
                 {"Bronze/ONS_Data/lookup_lsoa_msoa_lad", "Bronze/ONS_Data/lookup_lad_fra"}
          [] a = "nfcc_family_groups_silver" -> {"Bronze/External_Data/NFCC_Family_Groups"}
          [] a = "dim_geography" ->
                 {"Silver/ONS_Data/lookup_lsoa_msoa_lad", "Silver/ONS_Data/lookup_lad_fra"}
          [] a = "fact_population" -> {"Silver/ONS_Data/population_long", "Gold/Dim_Geography"}
          [] a = "dim_frs" -> {"Silver/GovUK_FireStats", "Silver/External_Data/nfcc_family_groups"}
          [] a = "dim_financial_year" -> {"Silver/GovUK_FireStats"}
          [] a = "dim_incident_type" -> {"Silver/GovUK_FireStats"}
          [] a = "create_fire_facts" -> {"Silver/GovUK_FireStats"}
          [] a = "fact_frs_risk_profiles" -> {"Silver/External_Data/nfcc_family_groups"}
          [] OTHER -> {}]

\* the tables an asset writes
Writes ==
    [a \in Assets |->
        CASE a = "fire_stats_bronze_all" -> {"Bronze/GovUK_FireStats"}
          [] a = "nfcc_family_group_bronze" -> {"Bronze/External_Data/NFCC_Family_Groups"}
          [] a = "ons_data_bronze" ->
                 {"Bronze/ONS_Data/population_estimates", "Bronze/ONS_Data/lookup_lsoa_msoa_lad",
                  "Bronze/ONS_Data/lookup_lad_fra"}
          [] a = "fire_stats_silver" -> {"Silver/GovUK_FireStats"}
          [] a = "population_silver" -> {"Silver/ONS_Data/population_long"}
          [] a = "geography_lookups_silver" ->
                 {"Silver/ONS_Data/lookup_lsoa_msoa_lad", "Silver/ONS_Data/lookup_lad_fra"}
          [] a = "nfcc_family_groups_silver" -> {"Silver/External_Data/nfcc_family_groups"}
          [] a = "dim_geography" -> {"Gold/Dim_Geography"}
          [] a = "fact_population" ->
                 {"Gold/Fact_Population_LSOA", "Gold/Fact_Population_MSOA",
                  "Gold/Fact_Population_LAD", "Gold/Fact_Population_FRS"}
          [] a = "dim_frs" -> {"Gold/Dim_FRS"}
          [] a = "dim_financial_year" -> {"Gold/Dim_FinancialYear"}
          [] a = "dim_incident_type" -> {"Gold/Dim_IncidentType"}
          [] a = "create_fire_facts" -> {"Gold/Fact_*"}
          [] OTHER -> {"Gold/Fact_FRS_Risk_Profiles"}]

InitRun ==
    /\ CoreIdle
    /\ DrillIdle /\ FactIdle /\ FydIdle /\ FpIdle /\ ColIdle /\ LastIdle
    /\ run = [a \in Assets |-> "pending"]

RunFrame == <<coreVars, drillVars, factVars, fydVars, fpVars, colVars, lastVars>>

\* a step starts once every asset it depends on has been materialized
Start(a) ==
    /\ run[a] = "pending"
    /\ \A d \in Deps[a] : run[d] = "done"
    /\ run' = [run EXCEPT ![a] = "running"]
    /\ UNCHANGED RunFrame

\* the asset function returns
Finish(a) ==
    /\ run[a] = "running"
    /\ run' = [run EXCEPT ![a] = "done"]
    /\ UNCHANGED RunFrame

\* the asset function raises
Fail(a) ==
    /\ run[a] = "running"
    /\ run' = [run EXCEPT ![a] = "failed"]
    /\ UNCHANGED RunFrame

\* a step whose upstream failed or was skipped does not run
Skip(a) ==
    /\ run[a] = "pending"
    /\ \E d \in Deps[a] : run[d] \in {"failed", "skipped"}
    /\ run' = [run EXCEPT ![a] = "skipped"]
    /\ UNCHANGED RunFrame

NextRun == \E a \in Assets : Start(a) \/ Finish(a) \/ Fail(a) \/ Skip(a)

SpecRun == InitRun /\ [][NextRun]_vars

\* C20: an asset that has started reads only tables whose writing asset has
\* completed: each Silver asset after its Bronze asset, each Gold asset after
\* every Silver or Gold asset whose output it reads
C20_ReadersStartAfterWriters ==
    \A a \in Assets : run[a] \in {"running", "done", "failed"} =>
        \A t \in Reads[a] :
            /\ \E w \in Assets : t \in Writes[w]
            /\ \A w \in Assets : t \in Writes[w] => run[w] = "done"

\* fact_population runs, after both its writers, while other assets have not started
C20_Witness ==
    /\ run["fact_population"] = "running"
    /\ run["dim_geography"] = "done" /\ run["population_silver"] = "done"
    /\ run["fire_stats_bronze_all"] = "pending"
    /\ run["nfcc_family_groups_silver"] = "running"

\* the Gold assets that write shared dimensions, and those that write facts
DimensionAssets == {"dim_geography", "dim_frs", "dim_financial_year", "dim_incident_type"}
FactAssets == {"create_fire_facts", "fact_population", "fact_frs_risk_profiles"}

\* C21: within Gold, dimensions are built before facts: a fact asset that has
\* started finds every shared dimension asset completed
C21_DimensionsBeforeFacts ==
    \A f \in FactAssets : run[f] \in {"running", "done", "failed"} =>
        \A d \in DimensionAssets : run[d] = "done"

(***************************************************************************)
(* silver_layer.fire_stats_silver: step 4 and the final typing pass        *)
(***************************************************************************)
MaxTypedColumns == 2

\* lines 176-179, in the order of the dict
midpoint_targets ==
    <<[target |-> <<"v", "e", "h", "i", "c", "l", "e", "s">>, suffix |-> <<"_", "m", "i", "d", "p", "o", "i", "n", "t">>],
      [target |-> <<"p", "e", "r", "s", "o", "n", "n", "e", "l">>, suffix |-> <<"_", "m", "i", "d", "p", "o", "i", "n", "t">>],
      [target |-> <<"r", "e", "s", "p", "o", "n", "s", "e", "_", "t", "i", "m", "e">>, suffix |-> <<"_", "m", "i", "d", "p", "o", "i", "n", "t">>],
      [target |-> <<"t", "i", "m", "e", "_", "a", "t", "_", "s", "c", "e", "n", "e">>, suffix |-> <<"_", "m", "i", "d", "p", "o", "i", "n", "t">>],
      [target |-> <<"e", "v", "a", "c", "u", "a", "t", "i", "o", "n", "s">>, suffix |-> <<"_", "c", "o", "u", "n", "t", "_", "e", "s", "t">>],
      [target |-> <<"v", "i", "c", "t", "i", "m", "_", "a", "g", "e">>, suffix |-> <<"_", "e", "s", "t">>],
      [target |-> <<"d", "a", "m", "a", "g", "e">>, suffix |-> <<"_", "s", "q", "m", "_", "e", "s", "t">>]>>

\* line 186
midpoint_suffixes == {<<"_", "m", "i", "d", "p", "o", "i", "n", "t">>, <<"_", "e", "s", "t">>, <<"_", "c", "o", "u", "n", "t", "_", "e", "s", "t">>, <<"_", "s", "q", "m", "_", "e", "s", "t">>}

\* line 190
key_patterns == {<<"e", "_", "c", "o", "d", "e">>, <<"f", "r", "s">>, <<"l", "a", "d">>, <<"l", "s", "o", "a">>, <<"m", "s", "o", "a">>, <<"a", "d", "m", "i", "n">>}

\* the column names of a Bronze fire table
TypedNames == {<<"v", "e", "h", "i", "c", "l", "e", "s">>,
               <<"d", "r", "i", "l", "l", "_", "t", "h", "r", "o", "u", "g", "h", "_", "i", "d">>,
               <<"d", "a", "i", "l", "y", "_", "i", "n", "c", "i", "d", "e", "n", "t", "s">>,
               <<"c", "a", "u", "s", "e">>,
               <<"l", "a", "d", "_", "c", "o", "d", "e">>,
               <<"b", "a", "t", "c", "h", "_", "c", "o", "d", "e">>,
               <<"f", "i", "r", "e", "_", "e", "s", "t">>,
               <<"l", "a", "d", "_", "c", "o", "d", "e", "_", "e", "s", "t">>}

\* the cells of a Bronze column
TypedCells == {Text(<<"5">>), Text(<<"C", "a", "r">>), Text(<<"n", "a", "n">>),
               Text(<<"N", "o", "n", "e">>), NoValue, Num(7)}

DrillColumn == <<"d", "r", "i", "l", "l", "_", "t", "h", "r", "o", "u", "g", "h", "_", "i", "d">>
DailyColumn == <<"d", "a", "i", "l", "y", "_", "i", "n", "c", "i", "d", "e", "n", "t", "s">>

\* frames of one row: no column name twice; Bronze cells are text or absent (line 158
\* of bronze_layer), the ids step 3 adds are numbers
TypedFrames ==
    {s \in SeqsUpTo([name : TypedNames, cell : TypedCells], MaxTypedColumns) :
        /\ \A j, k \in DOMAIN s : s[j].name = s[k].name => j = k
        /\ \A k \in DOMAIN s : s[k].cell.kind = "num" => s[k].name = DrillColumn}

EndsWith(s, suffix) ==
    Len(suffix) <= Len(s) /\ SubSeq(s, Len(s) - Len(suffix) + 1, Len(s)) = suffix

\* df[name] = cell: the column replaced where it is, or added at the end
SetColumn(df, name, cell) ==
    IF \E k \in DOMAIN df : df[k].name = name
    THEN [k \in DOMAIN df |-> IF df[k].name = name THEN [name |-> name, cell |-> cell] ELSE df[k]]
    ELSE Append(df, [name |-> name, cell |-> cell])

\* line 183
Derives(col, mt) ==
    Contains(col, mt.target) /\ ~Contains(col, <<"c", "o", "d", "e">>) /\ ~Contains(col, mt.suffix)

RECURSIVE DeriveTargets(_, _, _)
\* lines 182-184 for one column: the targets from the j-th on
DeriveTargets(df, col, j) ==
    IF j > Len(midpoint_targets) THEN df
    ELSE IF Derives(col.name, midpoint_targets[j])
         THEN DeriveTargets(SetColumn(df, col.name \o midpoint_targets[j].suffix,
                                      calculate_midpoint(col.cell)), col, j + 1)
         ELSE DeriveTargets(df, col, j + 1)

RECURSIVE DeriveMidpoints(_, _)
\* lines 181-184: the columns df had before the loop, in order; df[col] is read
\* when its turn comes
DeriveMidpoints(df, names) ==
    IF names = <<>> THEN df
    ELSE LET col == df[CHOOSE k \in DOMAIN df : df[k].name = Head(names)]
         IN  DeriveMidpoints(DeriveTargets(df, col, 1), Tail(names))

\* lines 188-194 without the daily_incidents branch
should_be_numeric_NoDailyCount(col) ==
    IF Contains(col, <<"_", "c", "o", "d", "e">>)
    THEN ~\E x \in key_patterns : Contains(col, x)
    ELSE \/ \E s \in midpoint_suffixes : EndsWith(col, s)
         \/ col = DrillColumn

\* lines 188-194
should_be_numeric(col) ==
    IF Contains(col, <<"_", "c", "o", "d", "e">>)
    THEN ~\E x \in key_patterns : Contains(col, x)
    ELSE \/ \E s \in midpoint_suffixes : EndsWith(col, s)
         \/ col = DrillColumn
         \/ col = DailyColumn

\* line 197: pd.to_numeric(cell, errors='coerce'), then fillna(0), as a fraction
ToNumeric(cell) ==
    IF cell.kind = "num" THEN Value([n |-> cell.v, d |-> 1])
    ELSE IF cell.kind = "value" THEN cell
    ELSE IF cell.kind = "text" /\ cell.chars # <<>> /\ DigitRun(cell.chars) = Len(cell.chars)
         THEN Value([n |-> IntOf(cell.chars), d |-> 1])
    ELSE Value([n |-> 0, d |-> 1])

\* line 199: astype(str), then 'nan' and 'None' replaced by None
ToText(cell) ==
    LET str == IF cell.kind = "text" THEN cell.chars
               ELSE IF cell.kind = "num" THEN StrOfInt(cell.v)
               ELSE IF cell.kind \in {"nan", "NaN"} THEN <<"n", "a", "n">>
               ELSE <<"N", "o", "n", "e">>
    IN  IF str \in {<<"n", "a", "n">>, <<"N", "o", "n", "e">>} THEN NoValue ELSE Text(str)

\* lines 187-199
TypingPass(df) ==
    [k \in DOMAIN df |->
        [name |-> df[k].name,
         cell |-> IF should_be_numeric(df[k].name) THEN ToNumeric(df[k].cell) ELSE ToText(df[k].cell)]]

InitTyping ==
    /\ CoreIdle
    /\ DrillIdle /\ FactIdle /\ FydIdle /\ FpIdle /\ ColIdle /\ DagIdle /\ RootIdle
    /\ ty_df \in TypedFrames \ {<<>>}
    /\ ty_out = <<>>

\* lines 176-199: the midpoint columns added, every column typed
DeriveAndType ==
    /\ ty_out = <<>>
    /\ ty_out' = TypingPass(DeriveMidpoints(ty_df, [k \in DOMAIN ty_df |-> ty_df[k].name]))
    /\ UNCHANGED <<ty_df, rootVars, coreVars, drillVars, factVars, fydVars, fpVars, colVars, dagVars>>

NextTyping == DeriveAndType

SpecTyping == InitTyping /\ [][NextTyping]_vars

\* the names step 4 adds to the frame
DerivedNames ==
    {ty_df[k].name \o midpoint_targets[j].suffix :
        k \in {k \in DOMAIN ty_df : TRUE},
        j \in {j \in DOMAIN midpoint_targets : \E k \in DOMAIN ty_df : Derives(ty_df[k].name, midpoint_targets[j])}}
    \cap {ty_out[k].name : k \in DOMAIN ty_out}

\* a code column whose name matches no geographic or organisational key pattern
IsPlainCode(name) == Contains(name, <<"_", "c", "o", "d", "e">>) /\ ~\E x \in key_patterns : Contains(name, x)

IsNumber(cell) == cell.kind = "value"
IsTextOrAbsent(cell) ==
    cell = NoValue \/ (cell.kind = "text" /\ cell.chars \notin {<<"n", "a", "n">>, <<"N", "o", "n", "e">>})

\* the cell the column had in the Bronze frame is no number
SourceInvalid(name) ==
    \A k \in DOMAIN ty_df : ty_df[k].name = name =>
        ty_df[k].cell.kind \notin {"num", "value"}
        /\ (ty_df[k].cell.kind = "text" => DigitRun(ty_df[k].cell.chars) # Len(ty_df[k].cell.chars))

Zero == Value([n |-> 0, d |-> 1])

\* C22 as stated: the columns derived in step 4, drill_through_id and
\* daily_incidents hold a number (0 for an invalid or absent value), every other
\* column that is no plain code column holds text or nothing
C22_TypingByDerivation ==
    ty_out # <<>> =>
        \A k \in DOMAIN ty_out :
            LET name == ty_out[k].name
                cell == ty_out[k].cell
            IN  IF name \in DerivedNames \cup {DrillColumn, DailyColumn}
                THEN IsNumber(cell)
                ELSE IF IsPlainCode(name) THEN IsNumber(cell) \/ IsTextOrAbsent(cell)
                ELSE IsTextOrAbsent(cell)

\* C22: after the typing pass a column holds a number, 0 where the value was
\* invalid or absent, when its name contains _code and no key pattern, or
\* contains no _code and ends in a midpoint suffix or is drill_through_id or
\* daily_incidents; every other column holds text, with nan and None made absent
C22_TypingByName ==
    ty_out # <<>> =>
        /\ \A k \in DOMAIN ty_out :
              LET name == ty_out[k].name
                  cell == ty_out[k].cell
                  numeric == \/ IsPlainCode(name)
                             \/ /\ ~Contains(name, <<"_", "c", "o", "d", "e">>)
                                /\ \/ \E s \in midpoint_suffixes : EndsWith(name, s)
                                   \/ name \in {DrillColumn, DailyColumn}
              IN  IF numeric
                  THEN IsNumber(cell) /\ (SourceInvalid(name) /\ name \notin DerivedNames => cell = Zero)
                  ELSE IsTextOrAbsent(cell)
        /\ \A name \in DerivedNames : \E k \in DOMAIN ty_out : ty_out[k].name = name /\ IsNumber(ty_out[k].cell)

\* a frame with a derived midpoint column of value 0 and a daily_incidents column
\* whose invalid text became 0
C22_Witness ==
    /\ Len(ty_df) = 2 /\ Len(ty_out) = 3
    /\ ty_df[2].name = DailyColumn /\ ty_df[2].cell = Text(<<"C", "a", "r">>)
    /\ ty_out[2].cell = Zero
    /\ ty_out[3].name \in DerivedNames /\ ty_out[3].cell = Zero
    /\ ty_out[1].cell = NoValue

\* C23: a failed download leaves the local cache unchanged: the step of the
\* download loop of fire_stats_bronze_all whose request or body transfer raised
\* leaves every landing file with the content it had before
C23_FailedDownloadKeepsCache ==
    [][(qi' = qi + 1 /\ resp'.status \in {"error", "broken"}) => landing' = landing]_vars

\* the Bronze table with the rows of one key only
OnlyKey(table, key) ==
    LET OfKey(r) == r.lsoa_code = key
    IN  [table EXCEPT !.rows = SelectSeq(table.rows, OfKey)]

\* the rows of one key, in table order
RowsOfKey(rows, key) ==
    LET OfKey(r) == r.lsoa_code = key
    IN  SelectSeq(rows, OfKey)

\* C24: the filled value of a (key, year) cell depends only on observations of
\* the same key: the rows population_long holds for a key are the rows it would
\* hold were the key's rows the only rows of the Bronze table, and a key with no
\* observation inside min_year..max_year holds 0 in every year
C24_FillWithinKey ==
    pop_result.status = "written" =>
        /\ \A key \in LsoaCodes :
              RowsOfKey(pop_long, key) = PopulationFrame(OnlyKey(pop_bronze, key))
        /\ pop_bronze.year_cols \cap all_years = {} =>
              \A j \in DOMAIN pop_long : pop_long[j].population = 0

\* two keys with different observations, the second with years to fill before
\* its first observation
C24_Witness ==
    /\ pop_result.status = "written"
    /\ pop_bronze.year_cols = {2015, 2020}
    /\ Len(pop_bronze.rows) = 2
    /\ pop_bronze.rows[1].lsoa_code = "E01000001" /\ pop_bronze.rows[2].lsoa_code = "E01000002"
    /\ pop_bronze.rows[1].cells[2020] = <<"5">>
    /\ pop_bronze.rows[2].cells[2015] = <<"1", ",", "0", "0", "7">>
    /\ \E j \in DOMAIN pop_long :
          pop_long[j] = [lsoa_code |-> "E01000002", year |-> 2010, population |-> 1007]

RECURSIVE SumGroups(_, _)
\* the sum of a rollup's values over a set of its group keys
SumGroups(groups, keys) ==
    IF keys = {} THEN 0
    ELSE LET g == CHOOSE key \in keys : TRUE
         IN  groups[g] + SumGroups(groups, keys \ {g})

\* the population a rollup holds for one financial year
YearTotal(groups, fy) == SumGroups(groups, {g \in DOMAIN groups : g[1] = fy})

\* the population of the joined rows of one financial year
JoinedTotal(fy) ==
    LET InYear(r) == r.financial_year = fy
    IN  SumPopulation(SelectSeq(MergeInner(fp_lsoa, geo_dim), InYear))

\* C25: for every financial year the rollups hold the same total population, the
\* sum of the population over the joined rows of that year
C25_RollupsConserveTotal ==
    fp_result.status = "written" =>
        \A fy \in {fp_lsoa[k].financial_year : k \in DOMAIN fp_lsoa} :
            /\ YearTotal(fp_result.lad, fy) = JoinedTotal(fy)
            /\ YearTotal(fp_result.frs, fy) = JoinedTotal(fy)

(***************************************************************************)
(* the lake roots of the four asset modules, and one run over them         *)
(***************************************************************************)
EnvNames == {"DAGSTER_LAKE_ROOT", "LAKE_ROOT"}

\* the values a variable of the environment may hold
EnvValues == {"", "C:\\DataLake_JB", "D:\\Lake"}

\* os.environ: every variable is unset or holds one of the values
Environments == UNION {[names -> EnvValues] : names \in SUBSET EnvNames}

\* Path(text): the empty text is the current directory
Path(text) == IF text = "" THEN "." ELSE text

\* os.getenv(name) is None or empty
Falsy(env, name) == name \notin DOMAIN env \/ env[name] = ""

\* the module that defines an asset
ModuleOf ==
    [a \in Assets |->
        CASE a \in {"fire_stats_bronze_all", "nfcc_family_group_bronze"} -> "bronze_layer"
          [] a = "ons_data_bronze" -> "ons_layer"
          [] a \in {"fire_stats_silver", "population_silver", "geography_lookups_silver",
                    "nfcc_family_groups_silver"} -> "silver_layer"
          [] OTHER -> "gold_layer"]

\* bronze_layer.py line 22 needs LAKE_ROOT when DAGSTER_LAKE_ROOT is unset or empty;
\* gold_layer.py line 9 and ons_layer.py line 11 need DAGSTER_LAKE_ROOT
ModulesLoad(env) ==
    /\ "DAGSTER_LAKE_ROOT" \in DOMAIN env
    /\ Falsy(env, "DAGSTER_LAKE_ROOT") => "LAKE_ROOT" \in DOMAIN env

\* the lake root every module resolves at import
ResolveRoots(env) ==
    [kind |-> "loaded",
     bronze_layer |-> Path(IF Falsy(env, "DAGSTER_LAKE_ROOT") THEN env["LAKE_ROOT"]
                           ELSE env["DAGSTER_LAKE_ROOT"]),
     silver_layer |-> Path("C:\\DataLake_JB"),
     ons_layer |-> Path(env["DAGSTER_LAKE_ROOT"]),
     gold_layer |-> Path(env["DAGSTER_LAKE_ROOT"])]

\* the tables an asset cannot run without: geography_lookups_silver skips a
\* lookup that is not there, dim_frs goes on without the NFCC table
Required ==
    [a \in Assets |->
        CASE a = "geography_lookups_silver" -> {}
          [] a = "dim_frs" -> {"Silver/GovUK_FireStats"}
          [] OTHER -> Reads[a]]

\* the tables an asset writes under its root, given the tables of the lake
Written(a, root, tables) ==
    IF a = "geography_lookups_silver"
    THEN {w \in Writes[a] :
            \/ w = "Silver/ONS_Data/lookup_lsoa_msoa_lad"
               /\ <<root, "Bronze/ONS_Data/lookup_lsoa_msoa_lad">> \in tables
            \/ w = "Silver/ONS_Data/lookup_lad_fra"
               /\ <<root, "Bronze/ONS_Data/lookup_lad_fra">> \in tables}
    ELSE Writes[a]

\* the Bronze tables an earlier run left under the root silver_layer.py names
StaleLake ==
    {<<Path("C:\\DataLake_JB"), w>> :
        w \in UNION {Writes[a] : a \in {b \in Assets : ModuleOf[b] \in {"bronze_layer", "ons_layer"}}}}

InitLake ==
    /\ CoreIdle
    /\ DrillIdle /\ FactIdle /\ FydIdle /\ FpIdle /\ ColIdle /\ DagIdle /\ TypIdle
    /\ environ \in Environments
    /\ lake_roots = [kind |-> "importing"]
    /\ lake_tables \in {{}, StaleLake}
    /\ materialized = [a \in Assets |-> "pending"]

LakeFrame == <<coreVars, drillVars, factVars, fydVars, fpVars, colVars, dagVars, typVars>>

\* definitions.py line 2: the four modules are imported
LoadDefinitions ==
    /\ lake_roots.kind = "importing"
    /\ ModulesLoad(environ)
    /\ lake_roots' = ResolveRoots(environ)
    /\ UNCHANGED <<environ, lake_tables, materialized, LakeFrame>>

\* an import raises KeyError
LoadDefinitionsRaises ==
    /\ lake_roots.kind = "importing"
    /\ ~ModulesLoad(environ)
    /\ lake_roots' = [kind |-> "raised"]
    /\ UNCHANGED <<environ, lake_tables, materialized, LakeFrame>>

\* an asset whose deps are materialized finds its tables and writes its own
Materialize(a) ==
    /\ lake_roots.kind = "loaded"
    /\ materialized[a] = "pending"
    /\ \A d \in Deps[a] : materialized[d] = "done"
    /\ LET root == lake_roots[ModuleOf[a]]
       IN  /\ \A r \in Required[a] : <<root, r>> \in lake_tables
           /\ lake_tables' = lake_tables \cup {<<root, w>> : w \in Written(a, root, lake_tables)}
    /\ materialized' = [materialized EXCEPT ![a] = "done"]
    /\ UNCHANGED <<environ, lake_roots, LakeFrame>>

\* an asset whose deps are materialized raises on a table that is not under its root
MaterializeRaises(a) ==
    /\ lake_roots.kind = "loaded"
    /\ materialized[a] = "pending"
    /\ \A d \in Deps[a] : materialized[d] = "done"
    /\ \E r \in Required[a] : <<lake_roots[ModuleOf[a]], r>> \notin lake_tables
    /\ materialized' = [materialized EXCEPT ![a] = "failed"]
    /\ UNCHANGED <<environ, lake_roots, lake_tables, LakeFrame>>

NextLake ==
    \/ LoadDefinitions
    \/ LoadDefinitionsRaises
    \/ \E a \in Assets : Materialize(a)
    \/ \E a \in Assets : MaterializeRaises(a)

SpecLake == InitLake /\ [][NextLake]_vars

\* C26: all stages resolve the same lake root: whenever the modules load, every
\* table an asset reads lies under the root its writer writes it under
C26_SameLakeRoot ==
    lake_roots.kind = "loaded" =>
        \A a, w \in Assets :
            \A r \in Reads[a] :
                r \in Writes[w] => lake_roots[ModuleOf[a]] = lake_roots[ModuleOf[w]]

\* C27: after the de-duplication the column names of the table are pairwise distinct
C27_DistinctColumnNames ==
    new_columns # <<>> =>
        \A j, k \in DOMAIN new_columns : new_columns[j] = new_columns[k] => j = k

====
